---- MODULE Spec2Model ----
(***************************************************************************)
(* A model of the event-driven session engine of the libev HTTP/2 server   *)
(* prototype: the publish/subscribe bus (samples/libev/lib/bus.c) kept on  *)
(* the intrusive list of samples/libev/lib/list.c.                         *)
(*                                                                         *)
(* Pointers are node numbers and NULL is 0.  A C function becomes an       *)
(* operator from the objects it touches to their new values; the value     *)
(* malloc returns is an argument of the operator.                          *)
(***************************************************************************)
EXTENDS Integers, Sequences, FiniteSets, TLC

\* ------------------------------------------------------------- bounds
MaxRecipients == 2      \* recipients registered in one run of the bus
MaxMessages == 3        \* messages published in one run of the bus
NumData == 2            \* distinct payload objects
PipeCapacity == 1       \* bytes the wake-up pipe holds before EAGAIN

\* --------------------------------------------------- program constants
NULL == 0
MESSAGE_BROADCAST == 1
MESSAGE_ANYCAST == 2
CHANNEL_SESSION_DATA_RECEIVED == 4

VARIABLES
    bus,            \* struct bus and the nodes linked from it
    pc,             \* where the event loop thread is
    list,           \* the cursor `list` of the walk in progress
    current,        \* the message _on_message is delivering
    log,            \* history: every callback invocation, in order
    taken,          \* history: the messages _on_message took, in order
    cancelled,      \* history: messages freed by bus_cancel_messages
    unregistered,   \* history: recipients passed to bus_unregister
    rchannel,       \* history: the channel each recipient registered on
    before,         \* history: recipients allocated when the walk began
    world,          \* the server: bus, sessions, protocol sessions, streams
    ev,             \* the event loop: where it is, which handlers are pending
    py,             \* the py/http2 session: registry, requests, codec
    lib             \* a hash table or a buffer of lib/ with its caller's view

busvars == <<bus, pc, list, current, log, taken, cancelled, unregistered,
             rchannel, before>>

sessvars == <<world, ev>>

pyvars == <<py>>

libvars == <<lib>>

vars == <<busvars, sessvars, pyvars, libvars>>

Range(s) == {s[i] : i \in DOMAIN s}
Min(S) == CHOOSE x \in S : \A y \in S : x <= y

\* --------------------------------------------------------------- list.c

NoLink == [prev |-> NULL, next |-> NULL]

\* list_insert_item(self, other): link `other` in front of `self`.
list_insert_item(links, self, other) ==
    LET l1 == [links EXCEPT ![other].prev = links[self].prev]
        l2 == [l1 EXCEPT ![other].next = self]
    IN  [l2 EXCEPT ![self].prev = other]

\* list_insert(head, self): the new node becomes the head.
list_insert(head, links, self) ==
    [head  |-> self,
     links |-> IF head # NULL THEN list_insert_item(links, head, self)
               ELSE links]

\* list_remove_item(self): unlink; self's own prev/next stay as they were.
list_remove_item(links, self) ==
    LET l1 == IF links[self].prev # NULL
              THEN [links EXCEPT ![links[self].prev].next = links[self].next]
              ELSE links
    IN  IF l1[self].next # NULL
        THEN [l1 EXCEPT ![l1[self].next].prev = l1[self].prev]
        ELSE l1

\* list_remove with the head moved the wrong way.
list_remove_prev(head, links, self) ==
    LET l == list_remove_item(links, self)
    IN  [head  |-> IF head = self THEN l[self].prev ELSE head,
         links |-> l]

list_remove(head, links, self) ==
    LET l == list_remove_item(links, self)
    IN  [head  |-> IF head = self THEN l[self].next ELSE head,
         links |-> l]

\* The nodes reached from p by following next (at most n of them).
RECURSIVE Chain(_, _, _)
Chain(links, p, n) ==
    IF p = NULL \/ n = 0 THEN <<>>
    ELSE <<p>> \o Chain(links, links[p].next, n - 1)

\* ---------------------------------------------------------------- bus.c

\* struct bus after bus_init: no recipient, no message, an empty pipe.
bus_init(channels) ==
    [recipients |-> [c \in channels |-> NULL],
     rlist      |-> <<>>,
     recipient  |-> <<>>,
     messages   |-> NULL,
     mlist      |-> <<>>,
     message    |-> <<>>,
     pipe       |-> 0]

Queue(b) == Chain(b.mlist, b.messages, Cardinality(DOMAIN b.mlist) + 1)
Listeners(b, c) ==
    Chain(b.rlist, b.recipients[c], Cardinality(DOMAIN b.rlist) + 1)

\* bus_register; `recipient` is the node zalloc returned.
bus_register(b, recipient, channel, on_message, user_data) ==
    LET r == list_insert(b.recipients[channel],
                         (recipient :> NoLink) @@ b.rlist, recipient)
    IN  [b EXCEPT !.recipients[channel] = r.head,
                  !.rlist = r.links,
                  !.recipient = (recipient :> [on_message |-> on_message,
                                               user_data |-> user_data])
                                @@ b.recipient]

\* bus_unregister that leaves the recipient linked.
bus_unregister_keep(b, channel, recipient) == b

bus_unregister(b, channel, recipient) ==
    LET r == list_remove(b.recipients[channel], b.rlist, recipient)
    IN  [b EXCEPT !.recipients[channel] = r.head, !.rlist = r.links]

\* The predicate session_del passes: this channel and this payload.
predicate(m, predicate_data) ==
    /\ m.channel = predicate_data.channel
    /\ m.data = predicate_data.data

\* The loop of bus_cancel_messages from node p on.
RECURSIVE cancel_loop(_, _, _, _)
cancel_loop(b, p, predicate_data, n) ==
    IF p = NULL \/ n = 0 THEN b
    ELSE LET next == b.mlist[p].next
         IN  IF predicate(b.message[p], predicate_data)
             THEN LET r == list_remove(b.messages, b.mlist, p)
                  IN  cancel_loop([b EXCEPT !.messages = r.head,
                                            !.mlist = r.links],
                                  next, predicate_data, n - 1)
             ELSE cancel_loop(b, next, predicate_data, n - 1)

\* bus_cancel_messages that also reads the pipe empty.
bus_cancel_messages_drain(b, predicate_data) ==
    [cancel_loop(b, b.messages, predicate_data,
                 Cardinality(DOMAIN b.mlist) + 1) EXCEPT !.pipe = 0]

bus_cancel_messages(b, predicate_data) ==
    cancel_loop(b, b.messages, predicate_data, Cardinality(DOMAIN b.mlist) + 1)

\* write(bus->fds[1]) of one byte succeeds while the pipe has room, fails
\* with EAGAIN when the pipe is full, and may fail with another error.
WriteResults == {"ok", "EAGAIN", "error"}

WritePossible(b, nwrite) ==
    /\ nwrite = "ok" => b.pipe < PipeCapacity
    /\ nwrite = "EAGAIN" => b.pipe = PipeCapacity

\* bus_enqueue_message without the write to the pipe.
bus_enqueue_message_nowake(b, m, channel, type, data, nwrite) ==
    LET r == list_insert(b.messages, (m :> NoLink) @@ b.mlist, m)
    IN  [b EXCEPT !.messages = r.head,
                  !.mlist = r.links,
                  !.message = (m :> [channel |-> channel,
                                     type |-> type,
                                     data |-> data]) @@ b.message]

\* bus_enqueue_message that treats every write error like EAGAIN.
bus_enqueue_message_noerror(b, m, channel, type, data, nwrite) ==
    LET r == list_insert(b.messages, (m :> NoLink) @@ b.mlist, m)
    IN  [b EXCEPT !.messages = r.head,
                  !.mlist = r.links,
                  !.message = (m :> [channel |-> channel,
                                     type |-> type,
                                     data |-> data]) @@ b.message,
                  !.pipe = IF nwrite = "ok" THEN @ + 1 ELSE @]

\* bus_enqueue_message; `m` is the node zalloc returned.  On a write error
\* the message is unlinked again and false is returned.
bus_enqueue_message(b, m, channel, type, data, nwrite) ==
    LET r == list_insert(b.messages, (m :> NoLink) @@ b.mlist, m)
        b1 == [b EXCEPT !.messages = r.head,
                        !.mlist = r.links,
                        !.message = (m :> [channel |-> channel,
                                           type |-> type,
                                           data |-> data]) @@ b.message]
        u == list_remove(b1.messages, b1.mlist, m)
    IN  IF nwrite = "error"
        THEN [b1 EXCEPT !.messages = u.head, !.mlist = u.links]
        ELSE [b1 EXCEPT !.pipe = IF nwrite = "ok" THEN @ + 1 ELSE @]

\* _on_message up to the for loop: the pipe is read until it is empty.
on_message_drain(b) == [b EXCEPT !.pipe = 0]

\* on_message_take that forgets the rest of the queue.
on_message_take_reset(b) ==
    LET r == list_remove(b.messages, b.mlist, b.messages)
    IN  [b EXCEPT !.messages = NULL, !.mlist = r.links]

\* on_message_take that leaves the head linked.
on_message_take_keep(b) == b

\* One iteration of the for loop of _on_message: the head is unlinked.
on_message_take(b) ==
    LET r == list_remove(b.messages, b.mlist, b.messages)
    IN  [b EXCEPT !.messages = r.head, !.mlist = r.links]

\* ------------------------------------------------ the bus on its own

Channels == {CHANNEL_SESSION_DATA_RECEIVED}
Data == 1..NumData
Predicates == [channel : Channels, data : Data]

\* Code outside the bus runs between events or inside a callback.
InUserCode == pc \in {"idle", "callback"}

Init ==
    /\ bus = bus_init(Channels)
    /\ pc = "idle"
    /\ list = NULL
    /\ current = NULL
    /\ log = <<>>
    /\ taken = <<>>
    /\ cancelled = {}
    /\ unregistered = {}
    /\ rchannel = <<>>
    /\ before = 0
    /\ world = NULL
    /\ ev = NULL
    /\ py = NULL
    /\ lib = NULL

Register(channel) ==
    /\ InUserCode
    /\ Cardinality(DOMAIN bus.rlist) < MaxRecipients
    /\ LET recipient == Cardinality(DOMAIN bus.rlist) + 1
       IN  /\ bus' = bus_register(bus, recipient, channel, "record", NULL)
           /\ rchannel' = (recipient :> channel) @@ rchannel
    /\ UNCHANGED <<pc, list, current, log, taken, cancelled, unregistered,
                   before>>
    /\ UNCHANGED <<sessvars, pyvars, libvars>>

\* The caller passes a recipient it registered on `channel` and has not
\* unregistered yet.
Unregister(channel, recipient) ==
    /\ InUserCode
    /\ recipient \in DOMAIN rchannel
    /\ rchannel[recipient] = channel
    /\ recipient \notin unregistered
    /\ bus' = bus_unregister(bus, channel, recipient)
    /\ unregistered' = unregistered \cup {recipient}
    /\ UNCHANGED <<pc, list, current, log, taken, cancelled, rchannel, before>>
    /\ UNCHANGED <<sessvars, pyvars, libvars>>

CancelMessages(predicate_data) ==
    /\ InUserCode
    /\ bus' = bus_cancel_messages(bus, predicate_data)
    /\ cancelled' = cancelled \cup
           {m \in Range(Queue(bus)) : predicate(bus.message[m], predicate_data)}
    /\ UNCHANGED <<pc, list, current, log, taken, unregistered, rchannel,
                   before>>
    /\ UNCHANGED <<sessvars, pyvars, libvars>>

\* bus_broadcast and bus_anycast.  Every caller in the repository aborts
\* when they return false.
Publish(channel, type, data, nwrite) ==
    /\ InUserCode
    /\ Cardinality(DOMAIN bus.mlist) < MaxMessages
    /\ WritePossible(bus, nwrite)
    /\ bus' = bus_enqueue_message(bus, Cardinality(DOMAIN bus.mlist) + 1,
                                  channel, type, data, nwrite)
    /\ pc' = IF nwrite = "error" THEN "abort" ELSE pc
    /\ UNCHANGED <<list, current, log, taken, cancelled, unregistered,
                   rchannel, before>>
    /\ UNCHANGED <<sessvars, pyvars, libvars>>

bus_broadcast(channel, data, nwrite) ==
    Publish(channel, MESSAGE_BROADCAST, data, nwrite)

bus_anycast(channel, data, nwrite) ==
    Publish(channel, MESSAGE_ANYCAST, data, nwrite)

\* _on_message, entry: the loop calls it when the pipe is readable.
_on_message ==
    /\ pc = "idle"
    /\ bus.pipe > 0
    /\ bus' = on_message_drain(bus)
    /\ pc' = "loop"
    /\ UNCHANGED <<list, current, log, taken, cancelled, unregistered,
                   rchannel, before>>
    /\ UNCHANGED <<sessvars, pyvars, libvars>>

\* _on_message, loop head with a message queued: it is unlinked and
\* bus_broadcast_now / bus_anycast_now starts at the head of the channel's
\* recipients.
_on_message_take ==
    /\ pc = "loop"
    /\ bus.messages # NULL
    /\ bus' = on_message_take(bus)
    /\ current' = bus.messages
    /\ taken' = Append(taken, bus.messages)
    /\ list' = bus.recipients[bus.message[bus.messages].channel]
    /\ pc' = "walk"
    /\ before' = Cardinality(DOMAIN bus.rlist)
    /\ UNCHANGED <<log, cancelled, unregistered, rchannel>>
    /\ UNCHANGED <<sessvars, pyvars, libvars>>

\* _on_message, loop head with bus->messages == NULL: it returns.
_on_message_return ==
    /\ pc = "loop"
    /\ bus.messages = NULL
    /\ pc' = "idle"
    /\ UNCHANGED <<bus, list, current, log, taken, cancelled, unregistered,
                   rchannel, before>>
    /\ UNCHANGED <<sessvars, pyvars, libvars>>

\* bus_broadcast_now / bus_anycast_now: recipient->on_message(...) is called.
bus_now_call ==
    /\ pc = "walk"
    /\ list # NULL
    /\ log' = Append(log, [recipient |-> list, message |-> current,
                           stale |-> list \in unregistered])
    /\ pc' = "callback"
    /\ UNCHANGED <<bus, list, current, taken, cancelled, unregistered,
                   rchannel, before>>
    /\ UNCHANGED <<sessvars, pyvars, libvars>>

\* The callback returns.  bus_broadcast_now goes on with list->next;
\* bus_anycast_now is done after its one call.
bus_now_next ==
    /\ pc = "callback"
    /\ list' = IF bus.message[current].type = MESSAGE_BROADCAST
               THEN bus.rlist[list].next
               ELSE NULL
    /\ pc' = "walk"
    /\ UNCHANGED <<bus, current, log, taken, cancelled, unregistered,
                   rchannel, before>>
    /\ UNCHANGED <<sessvars, pyvars, libvars>>

\* The walk is over: back in _on_message, free(message), next iteration.
bus_now_return ==
    /\ pc = "walk"
    /\ list = NULL
    /\ current' = NULL
    /\ pc' = "loop"
    /\ UNCHANGED <<bus, list, log, taken, cancelled, unregistered, rchannel,
                   before>>
    /\ UNCHANGED <<sessvars, pyvars, libvars>>

Next ==
    \/ \E c \in Channels : Register(c)
    \/ \E c \in Channels, r \in 1..MaxRecipients : Unregister(c, r)
    \/ \E pd \in Predicates : CancelMessages(pd)
    \/ \E c \in Channels, d \in Data, w \in WriteResults : bus_broadcast(c, d, w)
    \/ \E c \in Channels, d \in Data, w \in WriteResults : bus_anycast(c, d, w)
    \/ _on_message
    \/ _on_message_take
    \/ _on_message_return
    \/ bus_now_call
    \/ bus_now_next
    \/ bus_now_return

Spec == Init /\ [][Next]_vars

\* The event loop is fair: it calls _on_message when the pipe is readable,
\* and _on_message and the callbacks it calls run to their end.
Loop ==
    \/ _on_message
    \/ _on_message_take
    \/ _on_message_return
    \/ bus_now_call
    \/ bus_now_next
    \/ bus_now_return

SpecFair == Spec /\ WF_vars(Loop)

\* -------------------------------------------------- claims about the bus

Delivering == pc \in {"walk", "callback"} /\ current # NULL
Registered(c) ==
    {r \in DOMAIN rchannel : rchannel[r] = c /\ r \notin unregistered}
Calls(m) == {i \in DOMAIN log : log[i].message = m}

\* C1: messages are delivered in the order in which they were enqueued:
\* while a message is being delivered, every message still queued was
\* enqueued after it (message numbers grow in enqueue order).
C1_Fifo ==
    Delivering => \A m \in Range(Queue(bus)) : current < m

\* C5: with no recipient unregistered, the callbacks of one broadcast run in
\* registration order (recipient numbers grow in registration order).
C5_RegistrationOrder ==
    unregistered = {} =>
        \A i, j \in DOMAIN log :
            (i < j /\ log[i].message = log[j].message)
                => log[i].recipient < log[j].recipient

\* C6: an anycast message invokes exactly one callback, that of the first
\* registered recipient, and nothing when no recipient is registered.
C6_AnycastFirst ==
    /\ (Delivering /\ pc = "walk" /\ list # NULL
            /\ bus.message[current].type = MESSAGE_ANYCAST)
         => list = Min(Registered(bus.message[current].channel))
    /\ \A m \in DOMAIN bus.message :
         bus.message[m].type = MESSAGE_ANYCAST => Cardinality(Calls(m)) <= 1
    /\ (Delivering /\ pc = "walk" /\ list = NULL
            /\ bus.message[current].type = MESSAGE_ANYCAST
            /\ Calls(current) = {})
         => Registered(bus.message[current].channel) = {}

\* C8: bus_cancel_messages removes exactly the queued messages for which the
\* predicate holds and keeps the others in their order; no recipient is
\* ever invoked with a cancelled message and none is taken by a pass.
C8_Cancel ==
    [][ /\ \A pd \in Predicates :
              CancelMessages(pd) =>
                  Queue(bus') = SelectSeq(Queue(bus),
                      LAMBDA m : ~predicate(bus.message[m], pd))
        /\ \A i \in DOMAIN log' : log'[i].message \notin cancelled'
        /\ Range(taken') \cap cancelled' = {}
        /\ Range(Queue(bus')) \cap cancelled' = {} ]_vars

\* C8 witness: of three queued messages the middle one was cancelled and the
\* other two were delivered afterwards.
C8_Witness ==
    /\ cancelled = {2}
    /\ Len(taken) = 2
    /\ Calls(1) # {} /\ Calls(3) # {}
    /\ pc = "idle"

\* C9: during a walk no recipient is invoked after it was unregistered, and
\* when a broadcast walk ends every recipient registered before the walk and
\* still registered was invoked exactly once.
C9_ReentrantWalk ==
    /\ \A i \in DOMAIN log : ~log[i].stale
    /\ (Delivering /\ pc = "walk" /\ list = NULL
            /\ bus.message[current].type = MESSAGE_BROADCAST)
         => \A r \in Registered(bus.message[current].channel) :
                r <= before =>
                    Cardinality({i \in Calls(current) : log[i].recipient = r}) = 1

\* C10: when _on_message returns the queue is empty, and every message
\* published so far, before or during the pass, was taken by a pass or
\* removed by bus_cancel_messages.
C10_PassDrains ==
    [][ _on_message_return =>
            /\ Queue(bus') = <<>>
            /\ \A m \in DOMAIN bus'.mlist :
                   m \in Range(taken') \cup cancelled' ]_vars

\* C10 witness: every message published was taken, none was cancelled, and a
\* wake byte written after the pass drained the pipe is still pending: the
\* last message was published by a callback and delivered in the same pass.
C10_Witness ==
    /\ pc = "idle"
    /\ bus.pipe > 0
    /\ bus.messages = NULL
    /\ cancelled = {}
    /\ Len(taken) >= 2
    /\ Len(taken) = Cardinality(DOMAIN bus.mlist)

\* C11: under a fair event loop every message that is queued is eventually
\* taken by a pass of _on_message, unless bus_cancel_messages removes it or
\* the process aborts; this includes messages whose wake-up write failed
\* with EAGAIN and messages that share one wake-up byte.
C11_NoLostWakeup ==
    \A m \in 1..MaxMessages :
        (m \in Range(Queue(bus)))
            ~> (m \in Range(taken) \/ m \in cancelled \/ pc = "abort")

\* C11 witness: three messages were queued together before any pass (the
\* pipe holds one byte, so the writes of the second and third failed with
\* EAGAIN) and one pass took all of them.
C11_Witness ==
    /\ pc = "idle"
    /\ taken = <<3, 2, 1>>
    /\ cancelled = {}
    /\ bus.pipe = 0

\* C12: every message enqueued is in exactly one of three places: still
\* queued, taken by a pass, removed by bus_cancel_messages; no message is
\* taken twice, and no recipient is called twice with the same message.
C12_ExactlyOnce ==
    /\ \A i, j \in DOMAIN taken : taken[i] = taken[j] => i = j
    /\ Range(taken) \cap cancelled = {}
    /\ Range(Queue(bus)) \cap (Range(taken) \cup cancelled) = {}
    /\ pc # "abort" =>
           DOMAIN bus.mlist = Range(Queue(bus)) \cup Range(taken) \cup cancelled
    /\ \A i, j \in DOMAIN log :
           (log[i].message = log[j].message
                /\ log[i].recipient = log[j].recipient) => i = j

\* C12 witness: the callback of message 1 published message 2 (its wake-up
\* byte is in the pipe the pass had drained) and then cancelled it.
C12_Witness ==
    /\ pc = "callback"
    /\ current = 1
    /\ taken = <<1>>
    /\ cancelled = {2}
    /\ DOMAIN bus.mlist = {1, 2}
    /\ bus.pipe = 1

\* C13: the recipients of a queued broadcast are those registered when
\* _on_message takes it: the walk then starts on the list of exactly the
\* recipients registered on the channel and not unregistered, whenever they
\* registered, and each call is made to the recipient under the cursor.
C13_DeliveryTime ==
    [][ /\ (_on_message_take
              /\ bus.message[bus.messages].type = MESSAGE_BROADCAST)
             => Range(Chain(bus'.rlist, list', MaxRecipients + 1))
                    = Registered(bus.message[bus.messages].channel)
        /\ bus_now_call
             => /\ log'[Len(log')].recipient = list
                /\ log'[Len(log')].message = current ]_vars

\* C13 witness: messages 1 and 2 were queued before the pass; recipient 2
\* registered during the delivery of message 2 (it was not called with it)
\* and recipient 1 was unregistered; message 1 has just been taken and the
\* walk is on recipient 2 alone.
C13_Witness ==
    /\ pc = "walk"
    /\ taken = <<2, 1>>
    /\ current = 1
    /\ bus.message[1].type = MESSAGE_BROADCAST
    /\ log = <<[recipient |-> 1, message |-> 2, stale |-> FALSE]>>
    /\ unregistered = {1}
    /\ list = 2
    /\ bus.rlist[2].next = NULL

\* C14: a publish whose wake-up write fails with an error other than EAGAIN
\* leaves the queue as it was and aborts the process, after which nothing
\* runs; a publish whose write fails with EAGAIN queues the message, leaves
\* the pipe as it is and goes on.
C14_WriteFailure ==
    [][ /\ pc # "abort"
        /\ \A c \in Channels, d \in Data,
               t \in {MESSAGE_BROADCAST, MESSAGE_ANYCAST} :
               /\ Publish(c, t, d, "error")
                    => /\ pc' = "abort"
                       /\ Queue(bus') = Queue(bus)
               /\ Publish(c, t, d, "EAGAIN")
                    => /\ pc' = pc
                       /\ Queue(bus') =
                              <<Cardinality(DOMAIN bus.mlist) + 1>> \o Queue(bus)
                       /\ bus'.pipe = bus.pipe ]_vars

\* C14 witness: the first publish wrote its byte, the second failed with
\* EAGAIN and is queued behind no wake-up of its own, the third failed with
\* another error and the process aborted.
C14_Witness ==
    /\ pc = "abort"
    /\ DOMAIN bus.mlist = {1, 2, 3}
    /\ Queue(bus) = <<2, 1>>
    /\ bus.pipe = 1
    /\ taken = <<>>
    /\ cancelled = {}

\* ======================================================= the HTTP/2 server
\* The bus carries the events of the server of samples/libev: lib/server.c
\* accepts connections, lib/session.c moves bytes between a socket and two
\* buffers, http2d/ feeds them to the nghttp2 codec.  The codec is outside
\* the repository: it is modelled by the callbacks it may make and by the
\* number of bytes it holds back for sending.  A handler of the event loop
\* runs to its end in one step; what the outside decides during the step
\* (bytes read, errno, codec callbacks) is the step's input.  Allocations
\* and codec constructors are taken to succeed.

\* ------------------------------------------------------------- bounds
MaxSessions == 1        \* connections accepted in one run
MaxStreams == 2         \* stream ids the peer may open on a connection
Unit == 1024            \* bytes of one read, one write and one codec frame
MaxPending == 2         \* frames the codec holds back for sending
MaxEvents == 2          \* codec callbacks in one call into the codec
MaxQueue == 4           \* bus messages allocated at one time
MaxTimeouts == 1        \* stream timers that expire on one connection

\* --------------------------------------------------- program constants
CHANNEL_SESSION_INITIALIZED == 1
CHANNEL_SESSION_DELETING == 2
CHANNEL_SESSION_DELETED == 3
CHANNEL_USER == 8
RECV_BUFFER_SIZE == 4096
RECV_BUFFER_HIGH_WATERMARK == 3072
SEND_BUFFER_SIZE == 4096
SEND_BUFFER_LOW_WATERMARK == 1024
STREAM_HASH_TABLE_SIZE == 39

\* http2d/channels.h is not part of the sources at hand; its channels are
\* numbered from CHANNEL_USER on.
CHANNEL_HTTP_SESSION_WANT_WRITE == CHANNEL_USER
CHANNEL_SESSION_SEND_BUFFER_EMPTY == CHANNEL_USER + 1
CHANNEL_STREAM_PREPARE_RESPONSE == CHANNEL_USER + 2

ServerChannels ==
    {CHANNEL_SESSION_INITIALIZED, CHANNEL_SESSION_DELETING,
     CHANNEL_SESSION_DELETED, CHANNEL_SESSION_DATA_RECEIVED,
     CHANNEL_HTTP_SESSION_WANT_WRITE, CHANNEL_SESSION_SEND_BUFFER_EMPTY,
     CHANNEL_STREAM_PREPARE_RESPONSE}

Sessions == 1..MaxSessions

\* Stream ids are odd; they fall in buckets 1, 0, 1, 0, ... of the table.
StreamId(i) ==
    IF i % 2 = 1 THEN STREAM_HASH_TABLE_SIZE * (i - 1) + 1
    ELSE STREAM_HASH_TABLE_SIZE * (i - 1)
StreamIds == {StreamId(i) : i \in 1..MaxStreams}

\* Two builds: samples/libev/http2d/http-session.c, whose callbacks publish
\* nothing, and prototypes/libev/http2d/callbacks.c with the handler of
\* samples/libev/http2d/handler.c registered.
Builds == {"samples", "prototypes"}

\* Pointers that travel as message payload.
session_addr(s) == <<"session", s>>
user_session(s) == <<"http_session", s>>
stream_addr(s, id) == <<"stream", s, id>>
container_of(data) == data[2]
NoStream == <<>>

Min2(a, b) == IF a < b THEN a ELSE b
Restrict(f, S) == [x \in DOMAIN f \cap S |-> f[x]]

\* ------------------------------------------------------------- buffer.c

NoBuffer == [buffer |-> FALSE, incoming |-> 0, outgoing |-> 0, size |-> 0]

buffer_alloc(size) ==
    [buffer |-> TRUE, incoming |-> 0, outgoing |-> 0, size |-> size]

buffer_free(buffer) == NoBuffer

buffer_used_space(buffer) == buffer.incoming - buffer.outgoing
buffer_is_full(buffer) == buffer.incoming = buffer.size
buffer_is_empty(buffer) == buffer_used_space(buffer) = 0

\* view->size of buffer_incoming_view.
buffer_incoming_view(buffer) == buffer.size - buffer.incoming

\* buffer_incoming_provided counting every byte twice.
buffer_incoming_provided_twice(buffer, provided) ==
    [buffer EXCEPT !.incoming = @ + 2 * provided]

buffer_incoming_provided(buffer, provided) ==
    [buffer EXCEPT !.incoming = @ + provided]

\* buffer_outgoing_view resets the cursors when nothing is unread; the
\* view's size is then buffer_used_space of the result.
buffer_outgoing_view(buffer) ==
    IF buffer.outgoing = buffer.incoming
    THEN [buffer EXCEPT !.outgoing = 0, !.incoming = 0]
    ELSE buffer

\* buffer_outgoing_consumed resetting the cursors whatever is left unread.
buffer_outgoing_consumed_rewind(buffer, consumed) ==
    [buffer EXCEPT !.outgoing = 0, !.incoming = 0]

\* buffer_outgoing_consumed without the reset of the cursors.
buffer_outgoing_consumed_keep(buffer, consumed) ==
    [buffer EXCEPT !.outgoing = @ + consumed]

buffer_outgoing_consumed(buffer, consumed) ==
    LET b == [buffer EXCEPT !.outgoing = @ + consumed]
    IN  IF b.outgoing = b.incoming
        THEN [b EXCEPT !.outgoing = 0, !.incoming = 0]
        ELSE b

\* buffer_incoming with generic_read returning nread (-1 on error).
buffer_incoming(buffer, nread) ==
    IF buffer_incoming_view(buffer) = 0 \/ nread = -1 THEN buffer
    ELSE buffer_incoming_provided(buffer, nread)

\* buffer_incoming_mem copying all of count bytes.
buffer_incoming_mem_all(buffer, count) ==
    buffer_incoming(buffer, count)

buffer_incoming_mem(buffer, count) ==
    buffer_incoming(buffer, Min2(buffer_incoming_view(buffer), count))

\* buffer_outgoing with generic_write returning nwrite (-1 on error).
buffer_outgoing(buffer, nwrite) ==
    LET v == buffer_outgoing_view(buffer)
    IN  IF buffer_used_space(v) = 0 \/ nwrite = -1 THEN v
        ELSE buffer_outgoing_consumed(v, nwrite)

\* --------------------------------------------------------- hash-table.c
\* A bucket is the sequence of its entries from the head of its list on;
\* list_insert puts a new entry at the head.

Buckets == 0..(STREAM_HASH_TABLE_SIZE - 1)
ZeroTable == [size |-> 0, table |-> [i \in Buckets |-> <<>>]]

hash_table_init(size) == [size |-> size, table |-> [i \in Buckets |-> <<>>]]

hash_table_clear(table) == [table EXCEPT !.table = [i \in Buckets |-> <<>>]]

_hash(table, key) == key % table.size

\* _find: the position of the entry with this key, NULL if there is none.
_find(bucket, key) ==
    LET hits == {i \in DOMAIN bucket : bucket[i].key = key}
    IN  IF hits = {} THEN NULL ELSE Min(hits)

hash_table_get(table, key) ==
    LET bucket == table.table[_hash(table, key)]
        i == _find(bucket, key)
    IN  IF i = NULL THEN NoStream ELSE bucket[i].value

hash_table_put(table, key, value) ==
    LET h == _hash(table, key)
        bucket == table.table[h]
        i == _find(bucket, key)
    IN  [replace |-> i # NULL,
         table |-> IF i # NULL
                   THEN [table EXCEPT !.table[h][i].value = value]
                   ELSE [table EXCEPT !.table[h] =
                            <<[key |-> key, value |-> value]>> \o bucket]]

hash_table_pop(table, key) ==
    LET h == _hash(table, key)
        bucket == table.table[h]
        i == _find(bucket, key)
    IN  [found |-> i # NULL,
         value |-> IF i = NULL THEN NoStream ELSE bucket[i].value,
         table |-> IF i = NULL THEN table
                   ELSE [table EXCEPT !.table[h] =
                            SubSeq(bucket, 1, i - 1)
                                \o SubSeq(bucket, i + 1, Len(bucket))]]

\* hash_table_next.  iterator.entry is the position of the entry in bucket
\* iterator.index, NULL in a zero-initialised iterator.  With no next entry
\* in the bucket the index is incremented before a bucket is looked at.
hash_table_next(table, iterator) ==
    LET next == IF iterator.entry # NULL
                     /\ iterator.entry < Len(table.table[iterator.index])
                THEN iterator.entry + 1
                ELSE NULL
        later == {j \in Buckets : j > iterator.index /\ j < table.size
                                  /\ table.table[j] # <<>>}
    IN  IF next # NULL
        THEN [found |-> TRUE, iterator |-> [iterator EXCEPT !.entry = next]]
        ELSE IF later # {}
        THEN [found |-> TRUE, iterator |-> [entry |-> 1, index |-> Min(later)]]
        ELSE [found |-> FALSE,
              iterator |-> [iterator EXCEPT !.index =
                  IF iterator.index + 1 > table.size
                  THEN iterator.index + 1 ELSE table.size]]

\* ------------------------------------------------------------ the world
\* w.bus       struct bus (as above), w.current the message being delivered
\* w.session   struct session by connection; handle: its memory is allocated
\* w.http      struct http_session, the user_session of the session
\* w.stream    the allocated struct stream objects, by address
\* w.codec     the nghttp2 session
\* w.note      history kept for the properties
\* w.input     what the outside decides during the step
\* w.ret       the value the last call returned
\* w.ub        the object a handler used after it was freed, "" if none
\* w.stuck     the step needs more than the model's bounds or an input the
\*             codec cannot produce

NoSession ==
    [handle |-> FALSE, fd |-> FALSE, recv_watcher |-> FALSE,
     send_watcher |-> FALSE, recv_buffer |-> NoBuffer,
     send_buffer |-> NoBuffer]

ZeroHttp ==
    [id |-> 0, nghttp2_session |-> FALSE, shutdown_event |-> NULL,
     settings_timer |-> FALSE, streams |-> ZeroTable]

NoCodec == [alive |-> FALSE, out |-> 0, open |-> {}, ended |-> {},
            opened |-> {}, rst |-> {}]

NoNote ==
    [accepted |-> FALSE, closed |-> FALSE, cause |-> "", dropped |-> 0,
     requested |-> -1, again |-> FALSE, emptied |-> FALSE,
     http_deleted |-> FALSE, deleting |-> <<>>, deleted |-> <<>>]

NoInput == [events |-> <<>>, fail |-> FALSE]

Ub(w, what) == IF w.ub = "" THEN [w EXCEPT !.ub = what] ELSE w
Stuck(w) == [w EXCEPT !.stuck = TRUE]
Cause(w, s, cause) ==
    IF w.note[s].cause = "" THEN [w EXCEPT !.note[s].cause = cause] ELSE w

\* ----------------------------------------------- bus.c, seen from a handler

\* zalloc of a message: the lowest free node.
malloc_message(b) ==
    LET free == (1..MaxQueue) \ DOMAIN b.mlist
    IN  IF free = {} THEN NULL ELSE Min(free)

\* free(message) for every node that is no longer linked.
free_messages(b, keep) ==
    [b EXCEPT !.mlist = Restrict(@, Range(Queue(b)) \cup keep),
              !.message = Restrict(@, Range(Queue(b)) \cup keep)]

\* bus_broadcast: the byte is written when the pipe has room, otherwise the
\* write fails with EAGAIN.
broadcast(w, channel, data) ==
    IF malloc_message(w.bus) = NULL THEN Stuck(w)
    ELSE [w EXCEPT !.bus = bus_enqueue_message(@, malloc_message(@), channel,
                               MESSAGE_BROADCAST, data,
                               IF @.pipe < PipeCapacity THEN "ok"
                               ELSE "EAGAIN")]

\* bus_register from a handler; the recipient is a fresh node.
register(w, channel, on_message, user_data) ==
    [w EXCEPT !.bus = bus_register(@, Cardinality(DOMAIN @.rlist) + 1,
                                   channel, on_message, user_data),
              !.ret = Cardinality(DOMAIN w.bus.rlist) + 1]

\* ------------------------------------------------------------- stream.c

stream_init(w, stream, id, s) ==
    [w EXCEPT !.stream = (stream :> [id |-> id, session |-> s,
                                     recv_timer |-> FALSE,
                                     send_timer |-> FALSE]) @@ @]

stream_del(w, stream) ==
    [w EXCEPT !.stream[stream].recv_timer = FALSE,
              !.stream[stream].send_timer = FALSE]

\* ev_timer_again on a timer with a repeat value starts it.
stream_start_recv_timer(w, stream) ==
    [w EXCEPT !.stream[stream].recv_timer = TRUE]

stream_extend_recv_timer(w, stream) ==
    [w EXCEPT !.stream[stream].recv_timer = TRUE]

\* stream_stop_recv_timer that leaves the timer running.
stream_stop_recv_timer_not(w, stream) == w

stream_stop_recv_timer(w, stream) ==
    [w EXCEPT !.stream[stream].recv_timer = FALSE]

\* free(stream)
free_stream(w, stream) ==
    [w EXCEPT !.stream = Restrict(@, DOMAIN @ \ {stream})]

\* ------------------------------------------------------------ session.c

session_flush_send_buffer(w, s) ==
    [w EXCEPT !.session[s].send_watcher = TRUE]

\* _check_send_buffer_watermark that flushes whatever the buffer holds.
_check_send_buffer_watermark_always(w, s) == session_flush_send_buffer(w, s)

_check_send_buffer_watermark(w, s) ==
    IF buffer_used_space(w.session[s].send_buffer) > SEND_BUFFER_LOW_WATERMARK
    THEN session_flush_send_buffer(w, s)
    ELSE w

\* _check_recv_buffer_watermark that never starts the watcher.
_check_recv_buffer_watermark_never(w, s) == w

_check_recv_buffer_watermark(w, s) ==
    IF buffer_used_space(w.session[s].recv_buffer) <= RECV_BUFFER_HIGH_WATERMARK
    THEN [w EXCEPT !.session[s].recv_watcher = TRUE]
    ELSE w

\* session_send: w.ret is the number of bytes the send buffer took.
session_send(w, s, count) ==
    _check_send_buffer_watermark(
        [w EXCEPT !.session[s].send_buffer = buffer_incoming_mem(@, count),
                  !.ret = buffer_incoming_mem(w.session[s].send_buffer,
                                              count).incoming
                          - w.session[s].send_buffer.incoming],
        s)

session_recv_buffer_consumed(w, s, size) ==
    _check_recv_buffer_watermark(
        [w EXCEPT !.session[s].recv_buffer =
                      buffer_outgoing_consumed(@, size)], s)

\* ------------------------------------------------------- http-session.c

http_session_check_want_write(w, s) ==
    IF w.codec[s].out > 0
    THEN broadcast(w, CHANNEL_HTTP_SESSION_WANT_WRITE, user_session(s))
    ELSE w

\* nghttp2_submit_settings, nghttp2_submit_response,
\* nghttp2_session_terminate_session: one more frame to send.
submit(w, s) ==
    [w EXCEPT !.codec[s].out = Min2(@ + Unit, MaxPending * Unit)]

\* session->shutdown_event = the recipient bus_register returned
set_shutdown_event(w, s) == [w EXCEPT !.http[s].shutdown_event = w.ret]

\* http_session_graceful_shutdown without the test of shutdown_event.
http_session_graceful_shutdown_twice(w, s) ==
    set_shutdown_event(
        register(session_flush_send_buffer(
                     http_session_check_want_write(w, s), s),
                 CHANNEL_SESSION_SEND_BUFFER_EMPTY, "_send_buffer_empty",
                 NULL),
        s)

\* note[s].again: a shutdown was requested while one was in progress.
http_session_graceful_shutdown(w, s) ==
    IF w.http[s].shutdown_event # NULL
    THEN [w EXCEPT !.note[s].again = TRUE]
    ELSE set_shutdown_event(
             register(
                 session_flush_send_buffer(
                     http_session_check_want_write(
                         [w EXCEPT !.note[s].requested =
                              buffer_used_space(w.session[s].send_buffer)],
                         s),
                     s),
                 CHANNEL_SESSION_SEND_BUFFER_EMPTY, "_send_buffer_empty",
                 NULL),
             s)

http_session_terminate(w, s) ==
    http_session_graceful_shutdown(submit(w, s), s)

\* http_session_shutdown(session, error_code) is declared in http-session.h
\* and called by stream.c and handler.c; it begins the shutdown of the
\* session as http_session_terminate does.
http_session_shutdown(w, s) == http_session_terminate(w, s)

\* nghttp2_submit_rst_stream for the stream
submit_rst_stream(w, s, id) ==
    submit([w EXCEPT !.codec[s].rst = @ \cup {id}], s)

\* _timeout of stream.c, the callback of both timers of a stream.  The
\* stream's session is memory the server may have freed since.
_timeout(w, stream) ==
    IF ~w.session[w.stream[stream].session].handle THEN Ub(w, "session")
    ELSE http_session_shutdown(
             submit_rst_stream(
                 [w EXCEPT !.stream[stream].recv_timer = FALSE,
                           !.stream[stream].send_timer = FALSE],
                 w.stream[stream].session, w.stream[stream].id),
             w.stream[stream].session)

\* The timer does not repeat: the loop stops it before the callback runs.
settings_timeout(w, s) ==
    http_session_terminate([w EXCEPT !.http[s].settings_timer = FALSE], s)

http_session_init(w, s) ==
    http_session_check_want_write(
        submit([w EXCEPT !.http[s] =
                    [id |-> s, nghttp2_session |-> TRUE,
                     shutdown_event |-> NULL, settings_timer |-> TRUE,
                     streams |-> hash_table_init(STREAM_HASH_TABLE_SIZE)],
                         !.codec[s] = [NoCodec EXCEPT !.alive = TRUE]],
               s),
        s)

\* The while loop of http_session_del: every stream hash_table_next yields
\* is deleted and freed.
RECURSIVE del_streams(_, _, _, _)

\* The body of the loop for the entry the iterator is at.
del_stream(w, s, iterator, n) ==
    del_streams(
        free_stream(
            stream_del(w, w.http[s].streams.table[iterator.index]
                                                 [iterator.entry].value),
            w.http[s].streams.table[iterator.index][iterator.entry].value),
        s, iterator, n - 1)

del_next(w, s, r, n) ==
    IF n = 0 \/ ~r.found THEN w ELSE del_stream(w, s, r.iterator, n)

del_streams(w, s, iterator, n) ==
    del_next(w, s, hash_table_next(w.http[s].streams, iterator), n)

\* http_session_del up to nghttp2_session_del.
http_session_del_timer(w, s) ==
    [w EXCEPT !.http[s].settings_timer = FALSE,
              !.bus = IF w.http[s].shutdown_event # NULL
                      THEN bus_unregister(@, CHANNEL_SESSION_SEND_BUFFER_EMPTY,
                                          w.http[s].shutdown_event)
                      ELSE @,
              !.codec[s] = NoCodec]

\* http_session_del after the loop: hash_table_clear and memset.
http_session_del_clear(w, s) ==
    [w EXCEPT !.http[s] = ZeroHttp, !.note[s].http_deleted = TRUE]

http_session_del(w, s) ==
    http_session_del_clear(
        del_streams(http_session_del_timer(w, s), s,
                    [entry |-> NULL, index |-> 0], MaxStreams + 1),
        s)

\* _begin_headers
put_stream(w, s, id, stream) ==
    [w EXCEPT !.http[s].streams = hash_table_put(@, id, stream).table]

_begin_headers(w, s, id) ==
    put_stream(
        stream_start_recv_timer(
            stream_init(w, stream_addr(s, id), id, s), stream_addr(s, id)),
        s, id, stream_addr(s, id))

\* _prepare_response of callbacks.c
callbacks_prepare_response(w, s, stream) ==
    broadcast(stream_stop_recv_timer(w, stream),
              CHANNEL_STREAM_PREPARE_RESPONSE, stream)

\* _frame_recv for a DATA or HEADERS frame of stream `id`.
\* _frame_recv once the stream has been looked up.
frame_recv_stream(w, s, stream, end_stream) ==
    IF stream = NoStream THEN w
    ELSE IF ~end_stream THEN stream_extend_recv_timer(w, stream)
    ELSE IF w.build = "prototypes"
    THEN callbacks_prepare_response(w, s, stream)
    ELSE stream_stop_recv_timer(w, stream)

_frame_recv(w, s, id, end_stream) ==
    frame_recv_stream(w, s, hash_table_get(w.http[s].streams, id), end_stream)

\* _frame_recv for a SETTINGS frame with the ACK flag.
_frame_recv_settings_ack(w, s) ==
    [w EXCEPT !.http[s].settings_timer = FALSE]

\* _data_chunk_recv
data_chunk_recv_stream(w, stream) ==
    IF w.build = "prototypes" /\ stream # NoStream
    THEN stream_extend_recv_timer(w, stream)
    ELSE w

_data_chunk_recv(w, s, id) ==
    data_chunk_recv_stream(w, hash_table_get(w.http[s].streams, id))

\* _stream_close
\* _stream_close with the entry hash_table_pop returned.
pop_stream(w, s, r) ==
    IF ~r.found THEN Stuck(w)
    ELSE free_stream(
             stream_del([w EXCEPT !.http[s].streams = r.table], r.value),
             r.value)

_stream_close(w, s, id) ==
    pop_stream(IF w.build = "prototypes"
               THEN session_flush_send_buffer(w, s) ELSE w,
               s, hash_table_pop(w.http[s].streams, id))

\* ------------------------------------------------------ the nghttp2 codec
\* A stream is opened once, receives frames until its END_STREAM frame and
\* is closed once; while the codec sends, a stream whose request has ended
\* may be closed.

RecvEvents ==
    [cb : {"begin_headers", "data_chunk_recv", "stream_close"},
     id : StreamIds, end : {FALSE}]
    \cup [cb : {"frame_recv"}, id : StreamIds, end : BOOLEAN]
    \cup [cb : {"settings_ack"}, id : {0}, end : {FALSE}]

SendEvents == [cb : {"stream_close"}, id : StreamIds, end : {FALSE}]

Possible(c, e, sending) ==
    CASE e.cb = "begin_headers" -> ~sending /\ e.id \notin c.opened
      [] e.cb = "frame_recv" -> ~sending /\ e.id \in c.open \ c.ended
      [] e.cb = "data_chunk_recv" -> ~sending /\ e.id \in c.open \ c.ended
      [] e.cb = "stream_close" ->
            e.id \in c.open /\ (sending => e.id \in c.ended \cup c.rst)
      [] e.cb = "settings_ack" -> ~sending

Advance(c, e) ==
    CASE e.cb = "begin_headers" ->
            [c EXCEPT !.open = @ \cup {e.id}, !.opened = @ \cup {e.id}]
      [] e.cb = "frame_recv" /\ e.end -> [c EXCEPT !.ended = @ \cup {e.id}]
      [] e.cb = "stream_close" -> [c EXCEPT !.open = @ \ {e.id}]
      [] OTHER -> c

callback(w, s, e) ==
    CASE e.cb = "begin_headers" -> _begin_headers(w, s, e.id)
      [] e.cb = "frame_recv" -> _frame_recv(w, s, e.id, e.end)
      [] e.cb = "data_chunk_recv" -> _data_chunk_recv(w, s, e.id)
      [] e.cb = "stream_close" -> _stream_close(w, s, e.id)
      [] e.cb = "settings_ack" -> _frame_recv_settings_ack(w, s)

RECURSIVE callbacks(_, _, _, _, _)
callbacks(w, s, events, i, sending) ==
    IF i > Len(events) \/ w.stuck THEN w
    ELSE IF ~Possible(w.codec[s], events[i], sending) THEN Stuck(w)
    ELSE callbacks(callback([w EXCEPT !.codec[s] = Advance(@, events[i])],
                            s, events[i]),
                   s, events, i + 1, sending)

\* nghttp2_session_mem_recv of `size` bytes: the callbacks of w.input, then
\* the number of bytes consumed or an error.
nghttp2_session_mem_recv(w, s, size) ==
    IF size = 0
    THEN IF w.input = NoInput THEN [w EXCEPT !.ret = 0] ELSE Stuck(w)
    ELSE [callbacks(w, s, w.input.events, 1, FALSE)
             EXCEPT !.ret = IF w.input.fail THEN -1 ELSE size]

\* The send callback _send of http-session.c, called with all the codec
\* has to send.
http_send(w, s) == session_send(w, s, w.codec[s].out)

\* nghttp2_session_send: the pending bytes go to the send callback until it
\* takes none (NGHTTP2_ERR_WOULDBLOCK); then the callbacks of w.input.
\* nghttp2_session_send after the send callback took w.ret bytes.
sent(w, s) ==
    IF w.ret = 0 /\ w.input.events # <<>> THEN Stuck(w)
    ELSE [callbacks([w EXCEPT !.codec[s].out = @ - w.ret], s,
                    w.input.events, 1, TRUE)
             EXCEPT !.ret = IF w.input.fail THEN -1 ELSE 0]

nghttp2_session_send(w, s) ==
    sent(IF w.codec[s].out > 0 THEN http_send(w, s)
         ELSE [w EXCEPT !.ret = 0], s)

\* --------------------------------------------- handlers and session_del

\* _initialized of http2d.c
_initialized(w, data) == http_session_init(w, container_of(data))

\* What a recipient of session_del's notifications finds: the socket, the
\* watchers, the buffers, and whether a data-received message of the session
\* is queued.  note[s].deleting and note[s].deleted keep it.
Seen(w, s) ==
    [fd |-> w.session[s].fd,
     recv_buffer |-> w.session[s].recv_buffer.buffer,
     send_buffer |-> w.session[s].send_buffer.buffer,
     watchers |-> w.session[s].recv_watcher \/ w.session[s].send_watcher,
     queued |-> \E m \in Range(Queue(w.bus)) :
                    predicate(w.bus.message[m],
                              [channel |-> CHANNEL_SESSION_DATA_RECEIVED,
                               data |-> session_addr(s)])]

\* _deleting of http2d.c
_deleting(w, data) ==
    LET s == container_of(data)
    IN  IF ~w.session[s].handle THEN Ub(w, "session")
        ELSE http_session_del(
                 [w EXCEPT !.note[s].deleting =
                               [Seen(w, s) EXCEPT !.watchers = FALSE,
                                                  !.queued = FALSE]],
                 s)

\* _deleted of server.c: free(handle)
_deleted(w, data) ==
    LET s == container_of(data)
    IN  IF ~w.session[s].handle THEN Ub(w, "session")
        ELSE [w EXCEPT !.session[s].handle = FALSE,
                       !.note[s].deleted = Seen(w, s)]

\* recipient->on_message(...) in bus_broadcast_now called by session_init
\* and session_del: the recipients of their three channels are registered
\* by main and server_init and call neither session_init nor session_del.
on_message_now(w, f, data) ==
    CASE f = "_initialized" -> _initialized(w, data)
      [] f = "_deleting" -> _deleting(w, data)
      [] f = "_deleted" -> _deleted(w, data)
      [] OTHER -> Stuck(w)

\* The while loop of bus_broadcast_now from recipient `node` on.
RECURSIVE now_loop(_, _, _, _)

\* list = list->next, read after the callback has returned.
now_next(w, node, data, n) ==
    now_loop(w, w.bus.rlist[node].next, data, n - 1)

now_loop(w, node, data, n) ==
    IF node = NULL \/ n = 0 \/ w.ub # "" \/ w.stuck THEN w
    ELSE now_next(on_message_now(w, w.bus.recipient[node].on_message, data),
                  node, data, n)

bus_broadcast_now(w, channel, data) ==
    now_loop(w, w.bus.recipients[channel], data,
             Cardinality(DOMAIN w.bus.rlist) + 1)

\* session_del between its two notifications: the watchers are stopped,
\* the buffers freed, the socket closed, the session's data-received
\* messages cancelled.
session_close(w, s) ==
    [w EXCEPT !.session[s] = [handle |-> @.handle, fd |-> FALSE,
                              recv_watcher |-> FALSE,
                              send_watcher |-> FALSE,
                              recv_buffer |-> buffer_free(@.recv_buffer),
                              send_buffer |-> buffer_free(@.send_buffer)],
              !.note[s].dropped = buffer_used_space(w.session[s].send_buffer),
              !.note[s].closed = TRUE,
              !.bus = free_messages(
                  bus_cancel_messages(@,
                      [channel |-> CHANNEL_SESSION_DATA_RECEIVED,
                       data |-> session_addr(s)]),
                  {w.current} \ {NULL})]

\* session_del that notifies both channels before it closes anything.
session_del_notify_first(w, s) ==
    session_close(
        bus_broadcast_now(
            bus_broadcast_now(w, CHANNEL_SESSION_DELETING, session_addr(s)),
            CHANNEL_SESSION_DELETED, session_addr(s)),
        s)

session_del(w, s) ==
    bus_broadcast_now(
        session_close(
            bus_broadcast_now(w, CHANNEL_SESSION_DELETING, session_addr(s)),
            s),
        CHANNEL_SESSION_DELETED, session_addr(s))

\* _data_received of http2d.c
\* http_session_mem_recv of the view session_recv_buffer_view returns.
http_session_mem_recv(w, s) ==
    nghttp2_session_mem_recv(
        [w EXCEPT !.session[s].recv_buffer = buffer_outgoing_view(@)], s,
        buffer_used_space(buffer_outgoing_view(w.session[s].recv_buffer)))

\* _data_received once http_session_mem_recv has returned w.ret.
consumed(w, s) ==
    IF w.stuck THEN w
    ELSE IF w.ret < 0 THEN session_del(Cause(w, s, "codec"), s)
    ELSE session_recv_buffer_consumed(w, s, w.ret)

_data_received(w, data) ==
    IF ~w.session[container_of(data)].handle THEN Ub(w, "session")
    ELSE consumed(http_session_mem_recv(w, container_of(data)),
                  container_of(data))

\* _http_want_write of http2d.c
\* _http_want_write once nghttp2_session_send has returned w.ret.
written(w, s) ==
    IF w.stuck THEN w
    ELSE IF w.ret # 0 THEN session_del(Cause(w, s, "send"), s)
    ELSE w

_http_want_write(w, data) ==
    IF ~w.session[container_of(data)].handle THEN Ub(w, "session")
    ELSE written(nghttp2_session_send(w, container_of(data)),
                 container_of(data))

\* _send_buffer_empty of http-session.c
_send_buffer_empty(w, data) ==
    IF ~w.session[container_of(data)].handle THEN Ub(w, "session")
    ELSE IF w.http[container_of(data)].shutdown_event = NULL
    THEN Ub(w, "recipient")
    ELSE session_del(
             Cause([w EXCEPT !.bus = bus_unregister(@,
                        CHANNEL_SESSION_SEND_BUFFER_EMPTY,
                        w.http[container_of(data)].shutdown_event),
                             !.http[container_of(data)].shutdown_event = NULL,
                             !.note[container_of(data)].emptied = TRUE],
                   container_of(data), "emptied"),
             container_of(data))

\* _prepare_response of handler.c
_prepare_response(w, data) ==
    IF data \notin DOMAIN w.stream THEN Ub(w, "stream")
    ELSE IF ~w.session[w.stream[data].session].handle THEN Ub(w, "session")
    ELSE session_flush_send_buffer(
             http_session_check_want_write(
                 submit(w, w.stream[data].session), w.stream[data].session),
             w.stream[data].session)

\* recipient->on_message(...) in bus_broadcast_now called by _on_message.
on_message(w, f, data) ==
    CASE f = "_data_received" -> _data_received(w, data)
      [] f = "_http_want_write" -> _http_want_write(w, data)
      [] f = "_send_buffer_empty" -> _send_buffer_empty(w, data)
      [] f = "_prepare_response" -> _prepare_response(w, data)
      [] OTHER -> on_message_now(w, f, data)

\* The same while loop, entered from _on_message.
RECURSIVE deliver_loop(_, _, _, _)

deliver_next(w, node, data, n) ==
    deliver_loop(w, w.bus.rlist[node].next, data, n - 1)

deliver_loop(w, node, data, n) ==
    IF node = NULL \/ n = 0 \/ w.ub # "" \/ w.stuck THEN w
    ELSE deliver_next(on_message(w, w.bus.recipient[node].on_message, data),
                      node, data, n)

deliver(w, channel, data) ==
    deliver_loop(w, w.bus.recipients[channel], data,
                 Cardinality(DOMAIN w.bus.rlist) + 1)

session_init(w, s) ==
    bus_broadcast_now(
        [w EXCEPT !.session[s] =
                      [handle |-> TRUE, fd |-> TRUE, recv_watcher |-> TRUE,
                       send_watcher |-> FALSE,
                       recv_buffer |-> buffer_alloc(RECV_BUFFER_SIZE),
                       send_buffer |-> buffer_alloc(SEND_BUFFER_SIZE)],
                  !.note[s].accepted = TRUE],
        CHANNEL_SESSION_INITIALIZED, session_addr(s))

\* _accept of server.c for one connection.
_accept(w, s) == session_init(w, s)

\* _recv of session.c: the reads bring nread bytes in all, then the buffer
\* is full or a read returns 0 ("EOF") or fails with errno `end`.
\* _recv after its while loop.
received(w, s, end) ==
    IF ~buffer_is_full(w.session[s].recv_buffer) /\ end # "EAGAIN"
    THEN session_del(Cause(w, s, end), s)
    ELSE broadcast([w EXCEPT !.session[s].recv_watcher =
                                 IF buffer_is_full(w.session[s].recv_buffer)
                                 THEN FALSE ELSE @],
                   CHANNEL_SESSION_DATA_RECEIVED, session_addr(s))

\* _recv taking every errno for EAGAIN.
_recv_retry(w, s, nread, end) ==
    received([w EXCEPT !.session[s].recv_buffer = buffer_incoming(@, nread)],
             s, "EAGAIN")

_recv(w, s, nread, end) ==
    received([w EXCEPT !.session[s].recv_buffer = buffer_incoming(@, nread)],
             s, end)

\* _send of session.c: the writes take nwrite bytes in all, then the buffer
\* is empty or a write fails with errno `end`.
\* _send after its while loop.
flushed(w, s, end) ==
    IF buffer_is_empty(w.session[s].send_buffer)
    THEN [w EXCEPT !.session[s].send_watcher = FALSE]
    ELSE IF end # "EAGAIN" THEN session_del(Cause(w, s, end), s)
    ELSE w

_send(w, s, nwrite, end) ==
    flushed([w EXCEPT !.session[s].send_buffer = buffer_outgoing(@, nwrite)],
            s, end)

\* main of http2d.c, then server_init and handler_init.
main(build) ==
    LET b0 == bus_init(ServerChannels)
        b1 == bus_register(b0, 1, CHANNEL_SESSION_INITIALIZED,
                           "_initialized", NULL)
        b2 == bus_register(b1, 2, CHANNEL_SESSION_DATA_RECEIVED,
                           "_data_received", NULL)
        b3 == bus_register(b2, 3, CHANNEL_SESSION_DELETING, "_deleting", NULL)
        b4 == bus_register(b3, 4, CHANNEL_HTTP_SESSION_WANT_WRITE,
                           "_http_want_write", NULL)
        b5 == bus_register(b4, 5, CHANNEL_SESSION_DELETED, "_deleted", NULL)
        b6 == bus_register(b5, 6, CHANNEL_STREAM_PREPARE_RESPONSE,
                           "_prepare_response", NULL)
    IN  [bus |-> IF build = "prototypes" THEN b6 ELSE b5,
         current |-> NULL,
         session |-> [s \in Sessions |-> NoSession],
         http |-> [s \in Sessions |-> ZeroHttp],
         stream |-> <<>>,
         codec |-> [s \in Sessions |-> NoCodec],
         note |-> [s \in Sessions |-> NoNote],
         input |-> NoInput,
         ret |-> 0,
         ub |-> "",
         stuck |-> FALSE,
         build |-> build]

\* ---------------------------------------------------------- the event loop
\* One iteration of ev_run polls, then calls the handlers of the watchers
\* the poll found ready, the bus watcher (EV_MAXPRI) first.  ev.pending holds
\* the watchers that were active at the last poll and have not run since.
\* With no wake byte unread the next handler may follow a new poll; with a
\* wake byte unread a new poll is followed by the dispatch pass, so before
\* the pass only handlers still pending from the last poll run.

RecvErrnos == {"EAGAIN", "EOF", "ECONNRESET", "EIO"}
SendErrnos == {"EAGAIN", "EPIPE", "EIO"}
Sizes(limit) == {n \in {k * Unit : k \in 0..4} \cup {limit} : n <= limit}
Events == UNION {[1..n -> RecvEvents] : n \in 0..MaxEvents}
Inputs == [events : Events, fail : BOOLEAN]

Active(w) ==
    {<<"accept">>}
    \cup {<<"recv", s>> : s \in {t \in Sessions : w.session[t].recv_watcher}}
    \cup {<<"send", s>> : s \in {t \in Sessions : w.session[t].send_watcher}}
    \cup {<<"settings", s>> :
              s \in {t \in Sessions : w.http[t].settings_timer}}
    \cup {<<"timer", w.stream[stream].session, w.stream[stream].id>> :
              stream \in {t \in DOMAIN w.stream :
                              w.stream[t].recv_timer \/ w.stream[t].send_timer}}

Ready(x) == ev.pc = "idle" /\ (world.bus.pipe = 0 \/ x \in ev.pending)

\* The handler of watcher x returns.
Return(w, x) ==
    /\ ~w.stuck
    /\ world' = [w EXCEPT !.input = NoInput, !.ret = 0]
    /\ ev' = [pc |-> IF w.ub # "" THEN "ub" ELSE "idle",
              pending |-> (IF world.bus.pipe = 0 THEN Active(world)
                           ELSE ev.pending) \ {x}]
    /\ UNCHANGED <<busvars, pyvars, libvars>>

InitServer ==
    /\ bus = bus_init(Channels)
    /\ pc = "idle"
    /\ list = NULL
    /\ current = NULL
    /\ log = <<>>
    /\ taken = <<>>
    /\ cancelled = {}
    /\ unregistered = {}
    /\ rchannel = <<>>
    /\ before = 0
    /\ world \in {main(build) : build \in Builds}
    /\ ev = [pc |-> "idle", pending |-> {}]
    /\ py = NULL
    /\ lib = NULL

OnAccept ==
    \E s \in Sessions :
        /\ Ready(<<"accept">>)
        /\ ~world.note[s].accepted
        /\ \A t \in Sessions : t < s => world.note[t].accepted
        /\ Return(_accept(world, s), <<"accept">>)

OnRecv(s, nread, end) ==
    /\ Ready(<<"recv", s>>)
    /\ world.session[s].recv_watcher
    /\ nread \in Sizes(buffer_incoming_view(world.session[s].recv_buffer))
    /\ (nread = 0 /\ end = "EOF") \/ nread > 0 \/ end # "EOF"
    /\ nread = buffer_incoming_view(world.session[s].recv_buffer)
           => end = "EAGAIN"
    /\ Return(_recv(world, s, nread, end), <<"recv", s>>)

OnSend(s, nwrite, end) ==
    /\ Ready(<<"send", s>>)
    /\ world.session[s].send_watcher
    /\ nwrite \in Sizes(buffer_used_space(world.session[s].send_buffer))
    /\ nwrite = buffer_used_space(world.session[s].send_buffer)
           => end = "EAGAIN"
    /\ Return(_send(world, s, nwrite, end), <<"send", s>>)

OnSettingsTimer(s) ==
    /\ Ready(<<"settings", s>>)
    /\ world.http[s].settings_timer
    /\ Return(settings_timeout(world, s), <<"settings", s>>)

\* The recv or the send timer of a stream expires.
OnStreamTimer(s, id) ==
    /\ Ready(<<"timer", s, id>>)
    /\ Cardinality(world.codec[s].rst) < MaxTimeouts
    /\ stream_addr(s, id) \in DOMAIN world.stream
    /\ world.stream[stream_addr(s, id)].recv_timer
           \/ world.stream[stream_addr(s, id)].send_timer
    /\ Return(_timeout(world, stream_addr(s, id)),
              <<"timer", s, id>>)

\* _on_message of bus.c, entry: the pipe is read until it is empty.
OnBusReadable ==
    /\ ev.pc = "idle"
    /\ world.bus.pipe > 0
    /\ world' = [world EXCEPT !.bus = on_message_drain(@)]
    /\ ev' = [pc |-> "loop", pending |-> Active(world)]
    /\ UNCHANGED <<busvars, pyvars, libvars>>

\* bus_broadcast_now has returned to _on_message: free(message).
Delivered(w) ==
    /\ ~w.stuck
    /\ world' = [w EXCEPT !.bus = free_messages(@, {}),
                          !.current = NULL,
                          !.input = NoInput,
                          !.ret = 0]
    /\ ev' = [ev EXCEPT !.pc = IF w.ub # "" THEN "ub" ELSE "loop"]
    /\ UNCHANGED <<busvars, pyvars, libvars>>

\* One iteration of the for loop of _on_message: the head is unlinked,
\* delivered and freed.  nghttp2_session_send fails only when memory runs
\* out or a callback reports a failure, and no callback here does.
OnBusMessage(input) ==
    /\ ev.pc = "loop"
    /\ world.bus.messages # NULL
    /\ LET message == world.bus.message[world.bus.messages]
       IN  /\ message.channel \notin {CHANNEL_SESSION_DATA_RECEIVED,
                                      CHANNEL_HTTP_SESSION_WANT_WRITE}
                  => input = NoInput
           /\ message.channel = CHANNEL_HTTP_SESSION_WANT_WRITE
                  => Range(input.events) \subseteq SendEvents /\ ~input.fail
           /\ Delivered(deliver([world EXCEPT !.bus = on_message_take(@),
                                              !.current = world.bus.messages,
                                              !.input = input],
                                message.channel, message.data))

\* _on_message, loop head with bus->messages == NULL: it returns.
OnBusDone ==
    /\ ev.pc = "loop"
    /\ world.bus.messages = NULL
    /\ ev' = [ev EXCEPT !.pc = "idle"]
    /\ UNCHANGED <<world, busvars, pyvars, libvars>>

NextServer ==
    \/ OnAccept
    \/ \E s \in Sessions, nread \in Sizes(RECV_BUFFER_SIZE), end \in RecvErrnos :
           OnRecv(s, nread, end)
    \/ \E s \in Sessions, nwrite \in Sizes(SEND_BUFFER_SIZE), end \in SendErrnos :
           OnSend(s, nwrite, end)
    \/ \E s \in Sessions : OnSettingsTimer(s)
    \/ OnBusReadable
    \/ \E input \in Inputs : OnBusMessage(input)
    \/ OnBusDone

SpecServer == InitServer /\ [][NextServer]_vars

\* The samples build with the timers of its streams: at most MaxTimeouts of
\* them expire on a connection.
NextTimers ==
    \/ NextServer
    \/ \E s \in Sessions, id \in StreamIds : OnStreamTimer(s, id)

InitTimers == InitServer /\ world.build = "samples"

SpecTimers == InitTimers /\ [][NextTimers]_vars

\* =================================================== the py/http2 session
\* py/http2/http2 is the C half of a Python extension: session.c, stream.c
\* and callbacks.c drive the nghttp2 codec and keep the timers of a session
\* in the watchdog registry of its http_session.  The registry, the request
\* table (request_new, request_headers_end, request_end) and
\* http_session_close are the Python half and are not among the sources;
\* they follow sections 4.3 and 4.5 of the specification.  The codec is
\* modelled by the callbacks it may make.

\* ------------------------------------------------------------- bounds
MaxPyStreams == 2       \* streams the peer may open on the session
Ticks == 1              \* clock ticks of one timeout

\* --------------------------------------------------- program constants
SETTINGS_WATCHDOG_ID == 0

PyStreamIds == {2 * i - 1 : i \in 1..MaxPyStreams}

\* int is 32 bits wide.
INT_MAX == 2147483647

\* a * 10 + slot as the 32-bit two's complement multiply and add give it.
\* The value is computed in two 16-bit halves (65536 = 2^16), so that no
\* intermediate result leaves the range of int.
int_mul10_add(a, slot) ==
    LET lo == (a % 65536) * 10 + slot
        hi == ((a \div 65536) * 10 + (lo \div 65536)) % 65536
    IN  IF hi >= 32768 THEN (hi - 65536) * 65536 + (lo % 65536)
        ELSE hi * 65536 + (lo % 65536)

\* a * 10 + slot does not fit an int: signed overflow, which is undefined.
int_overflows(a, slot) ==
    \/ a > INT_MAX \div 10
    \/ a < -(INT_MAX \div 10)
    \/ a = INT_MAX \div 10 /\ slot > INT_MAX % 10

\* a / b of C for b > 0: the quotient is truncated toward zero.
int_div(a, b) == IF a >= 0 THEN a \div b ELSE (a + b - 1) \div b

recv_watchdog_id(stream_id) == int_mul10_add(stream_id, 1)
send_watchdog_id(stream_id) == int_mul10_add(stream_id, 2)

\* ------------------------------------------------ the watchdog registry
\* p.watchdog maps the ids present to [armed, age]; age counts the ticks
\* since the watchdog was started or restarted.  p.err is the value the
\* last registry call returned.

watchdog_exist(p, id) == id \in DOMAIN p.watchdog

watchdog_add(p, id, fail) ==
    IF fail THEN [p EXCEPT !.err = "HTTP2_ERROR"]
    ELSE IF watchdog_exist(p, id)
    THEN [p EXCEPT !.err = "HTTP2_ERROR_WATCHDOG_ID_DUPLICATED"]
    ELSE [p EXCEPT !.watchdog = (id :> [armed |-> FALSE, age |-> 0]) @@ @,
                   !.err = "ok"]

watchdog_start(p, id, fail) ==
    IF fail THEN [p EXCEPT !.err = "HTTP2_ERROR"]
    ELSE IF ~watchdog_exist(p, id)
    THEN [p EXCEPT !.err = "HTTP2_ERROR_WATCHDOG_NOT_FOUND"]
    ELSE [p EXCEPT !.watchdog[id] = [armed |-> TRUE, age |-> 0],
                   !.err = "ok"]

\* watchdog_restart that leaves the deadline where it was.
watchdog_restart_late(p, id) ==
    IF ~watchdog_exist(p, id)
    THEN [p EXCEPT !.err = "HTTP2_ERROR_WATCHDOG_NOT_FOUND"]
    ELSE IF ~p.watchdog[id].armed THEN [p EXCEPT !.err = "HTTP2_ERROR"]
    ELSE [p EXCEPT !.err = "ok"]

watchdog_restart(p, id) ==
    IF ~watchdog_exist(p, id)
    THEN [p EXCEPT !.err = "HTTP2_ERROR_WATCHDOG_NOT_FOUND"]
    ELSE IF ~p.watchdog[id].armed THEN [p EXCEPT !.err = "HTTP2_ERROR"]
    ELSE [p EXCEPT !.watchdog[id].age = 0, !.err = "ok"]

\* watchdog_restart_if_started that fails on a stopped watchdog.
watchdog_restart_if_started_strict(p, id) == watchdog_restart(p, id)

watchdog_restart_if_started(p, id) ==
    IF watchdog_exist(p, id) /\ ~p.watchdog[id].armed
    THEN [p EXCEPT !.err = "ok"]
    ELSE watchdog_restart(p, id)

watchdog_stop(p, id) ==
    IF ~watchdog_exist(p, id)
    THEN [p EXCEPT !.err = "HTTP2_ERROR_WATCHDOG_NOT_FOUND"]
    ELSE [p EXCEPT !.watchdog[id] = [armed |-> FALSE, age |-> 0],
                   !.err = "ok"]

watchdog_remove(p, id) ==
    IF ~watchdog_exist(p, id)
    THEN [p EXCEPT !.err = "HTTP2_ERROR_WATCHDOG_NOT_FOUND"]
    ELSE [p EXCEPT !.watchdog = [i \in DOMAIN @ \ {id} |-> @[i]],
                   !.err = "ok"]

\* ------------------------------------------------- the request table
\* p.requests holds the ids of the streams http_session knows.

request_new(p, stream_id) ==
    IF stream_id \in p.requests
    THEN [p EXCEPT !.err = "HTTP2_ERROR_STREAM_ID_DUPLICATED"]
    ELSE [p EXCEPT !.requests = @ \cup {stream_id}, !.err = "ok"]

request_headers_end(p, stream_id) ==
    IF stream_id \notin p.requests
    THEN [p EXCEPT !.err = "HTTP2_ERROR_STREAM_ID_NOT_FOUND"]
    ELSE [p EXCEPT !.err = "ok"]

\* The request is complete: the recv watchdog is stopped and the request is
\* handed to the application.
request_end(p, stream_id) ==
    IF stream_id \notin p.requests
    THEN [p EXCEPT !.err = "HTTP2_ERROR_STREAM_ID_NOT_FOUND"]
    ELSE IF watchdog_exist(p, recv_watchdog_id(stream_id))
    THEN watchdog_stop(p, recv_watchdog_id(stream_id))
    ELSE [p EXCEPT !.err = "ok"]

http_session_close(p) == [p EXCEPT !.closed = TRUE]

\* ------------------------------------------------------------ session.c
\* p.nghttp2 is the codec: the streams it has open, those whose request has
\* ended, those we have ended, the resets and the GOAWAY submitted.

\* A callback returns 0 or NGHTTP2_ERR_CALLBACK_FAILURE.
Return0(p) == [p EXCEPT !.ret = "ok"]
ReturnErr(p) ==
    [p EXCEPT !.ret = IF p.err = "ok" THEN "ok"
                      ELSE "NGHTTP2_ERR_CALLBACK_FAILURE"]

ZeroPy ==
    [watchdog |-> <<>>, requests |-> {}, err |-> "ok", ret |-> "ok",
     closed |-> FALSE, aborted |-> FALSE,
     nghttp2 |-> [opened |-> {}, open |-> {}, ended |-> {}, sent_end |-> {},
                  rst |-> {}, goaway |-> "", acked |-> FALSE,
                  unsent |-> FALSE],
     last |-> [cb |-> "session_init", id |-> 0, end |-> FALSE,
               blocked |-> FALSE, fault |-> "none",
               recv |-> [armed |-> FALSE, age |-> -1]]]

\* session_init after nghttp2_submit_settings and nghttp2_session_send
\* succeeded: the settings watchdog is added and started.
py_session_init(p) ==
    watchdog_start(watchdog_add(p, SETTINGS_WATCHDOG_ID, FALSE),
                   SETTINGS_WATCHDOG_ID, FALSE)

\* nghttp2_session_want_read and nghttp2_session_want_write are both 0 once
\* the GOAWAY of nghttp2_session_terminate_session has been sent.
session_should_close(p) == p.nghttp2.goaway # "" /\ ~p.nghttp2.unsent

\* session_settings_ack that leaves the settings watchdog alone.
session_settings_ack_keep(p) == [p EXCEPT !.err = "ok"]

session_settings_ack(p) ==
    LET p1 == watchdog_stop(p, SETTINGS_WATCHDOG_ID)
    IN  IF p1.err # "ok" THEN p1
        ELSE watchdog_remove(p1, SETTINGS_WATCHDOG_ID)

\* ------------------------------------------------------------- stream.c

\* stream_on_open.  `fault` names the registry call that fails, if any.
\* The loop declares its own err, so the err tested after the loop is the
\* one initialised to 0 before it.
stream_on_open(p, stream_id, fault) ==
    LET p1 == watchdog_add(p, recv_watchdog_id(stream_id),
                           fault = "add_recv")
        p2 == IF p1.err # "ok" THEN p1
              ELSE watchdog_start(p1, recv_watchdog_id(stream_id),
                                  fault = "start_recv")
        p3 == IF p2.err # "ok" THEN p2
              ELSE watchdog_add(p2, send_watchdog_id(stream_id),
                                fault = "add_send")
        err == "ok"
    IN  ReturnErr([p3 EXCEPT !.err = err])

stream_on_close(p, stream_id) ==
    LET p1 == watchdog_stop(p, recv_watchdog_id(stream_id))
        p2 == IF p1.err # "ok" THEN p1
              ELSE watchdog_remove(p1, recv_watchdog_id(stream_id))
        p3 == IF p2.err # "ok" THEN p2
              ELSE watchdog_stop(p2, send_watchdog_id(stream_id))
        p4 == IF p3.err # "ok" THEN p3
              ELSE watchdog_remove(p3, send_watchdog_id(stream_id))
    IN  ReturnErr(p4)

restart_recv(p, stream_id) ==
    IF ~watchdog_exist(p, recv_watchdog_id(stream_id)) THEN Return0(p)
    ELSE ReturnErr(watchdog_restart(p, recv_watchdog_id(stream_id)))

on_frame(p, stream_id, end_stream) ==
    IF end_stream THEN ReturnErr(request_end(p, stream_id))
    ELSE restart_recv(p, stream_id)

stream_on_headers_frame(p, stream_id, end_stream) ==
    LET p1 == request_headers_end(p, stream_id)
    IN  IF p1.err # "ok" THEN ReturnErr(p1)
        ELSE on_frame(p1, stream_id, end_stream)

stream_on_data_chunk(p, stream_id) == restart_recv(p, stream_id)

\* The remote windows are what the codec reports when the frame was sent.
is_blocked(stream_window, window) == stream_window <= 0 \/ window <= 0

\* stream_on_send_frame with the two flow-control branches exchanged.
stream_on_send_frame_flip(p, stream_id, end_stream, blocked) ==
    LET recv_id == recv_watchdog_id(stream_id)
        send_id == send_watchdog_id(stream_id)
        r == watchdog_restart_if_started(p, recv_id)
    IN  IF ~watchdog_exist(p, recv_id) THEN Return0(p)
        ELSE IF ~watchdog_exist(p, send_id) THEN [p EXCEPT !.aborted = TRUE]
        ELSE IF end_stream THEN ReturnErr(watchdog_stop(p, send_id))
        ELSE IF ~blocked
        THEN ReturnErr(IF r.err # "ok" THEN r
                       ELSE watchdog_start(r, send_id, FALSE))
        ELSE ReturnErr(IF r.err # "ok" THEN r ELSE watchdog_stop(r, send_id))

\* stream_on_send_frame with its do { } while (0) written out; expect()
\* aborts the process.
stream_on_send_frame(p, stream_id, end_stream, blocked) ==
    LET recv_id == recv_watchdog_id(stream_id)
        send_id == send_watchdog_id(stream_id)
        r == watchdog_restart_if_started(p, recv_id)
    IN  IF ~watchdog_exist(p, recv_id) THEN Return0(p)
        ELSE IF ~watchdog_exist(p, send_id) THEN [p EXCEPT !.aborted = TRUE]
        ELSE IF end_stream THEN ReturnErr(watchdog_stop(p, send_id))
        ELSE IF blocked
        THEN ReturnErr(IF r.err # "ok" THEN r
                       ELSE watchdog_start(r, send_id, FALSE))
        ELSE ReturnErr(IF r.err # "ok" THEN r ELSE watchdog_stop(r, send_id))

\* ---------------------------------------------------------- callbacks.c

on_begin_headers_callback(p, stream_id, fault) ==
    LET p1 == request_new(p, stream_id)
    IN  IF p1.err # "ok" THEN ReturnErr(p1)
        ELSE stream_on_open(p1, stream_id, fault)

on_frame_recv_callback(p, type, stream_id, end_stream) ==
    CASE type = "NGHTTP2_DATA" -> on_frame(p, stream_id, end_stream)
      [] type = "NGHTTP2_HEADERS" ->
            stream_on_headers_frame(p, stream_id, end_stream)
      [] type = "NGHTTP2_SETTINGS" -> ReturnErr(session_settings_ack(p))

\* on_data_chunk_recv_callback, on_frame_send_callback and
\* on_stream_close_callback pass their arguments to stream_on_data_chunk,
\* stream_on_send_frame and stream_on_close.

\* ------------------------------------------------- the watchdog callbacks

\* nghttp2_session_send from a watchdog callback: when the transport takes
\* the frames, the RST_STREAM submitted for an open stream closes it and
\* the codec calls on_stream_close_callback; its result is only logged.
RECURSIVE py_streams_closed(_, _)
py_streams_closed(p, closing) ==
    IF closing = {} THEN p
    ELSE LET stream_id == CHOOSE id \in closing : \A j \in closing : id <= j
         IN  py_streams_closed(
                 stream_on_close(
                     [p EXCEPT !.nghttp2.open = @ \ {stream_id}], stream_id),
                 closing \ {stream_id})

py_session_send(p, sendable) ==
    IF ~sendable THEN [p EXCEPT !.nghttp2.unsent = TRUE]
    ELSE Return0(py_streams_closed([p EXCEPT !.nghttp2.unsent = FALSE],
                                   p.nghttp2.rst \cap p.nghttp2.open))

py_settings_timeout(p, sendable) ==
    LET p1 == py_session_send(
                  [p EXCEPT !.nghttp2.goaway =
                       IF @ = "" THEN "NGHTTP2_SETTINGS_TIMEOUT" ELSE @],
                  sendable)
    IN  IF session_should_close(p1) THEN http_session_close(p1) ELSE p1

\* stream_timeout: both watchdogs of the stream are stopped (an error is
\* only logged) and RST_STREAM is submitted for the stream.
stream_timeout(p, watchdog_id, sendable) ==
    LET stream_id == int_div(watchdog_id, 10)
        p1 == watchdog_stop(watchdog_stop(p, recv_watchdog_id(stream_id)),
                            send_watchdog_id(stream_id))
        p2 == py_session_send([p1 EXCEPT !.nghttp2.rst = @ \cup {stream_id}],
                              sendable)
    IN  IF session_should_close(p2) THEN http_session_close(p2) ELSE p2

\* ------------------------------------------------------ the py/http2 run

Running(p) == ~p.closed /\ ~p.aborted /\ p.ret = "ok"

Faults == {"none", "add_recv", "start_recv", "add_send"}
WatchdogIds ==
    {SETTINGS_WATCHDOG_ID}
    \cup {recv_watchdog_id(id) : id \in PyStreamIds}
    \cup {send_watchdog_id(id) : id \in PyStreamIds}
Windows == {-1, 0, 1}

RecvOf(p, stream_id) ==
    IF watchdog_exist(p, recv_watchdog_id(stream_id))
    THEN p.watchdog[recv_watchdog_id(stream_id)]
    ELSE [armed |-> FALSE, age |-> -1]

Called(p, cb, stream_id, end_stream, blocked, fault) ==
    [p EXCEPT !.last = [cb |-> cb, id |-> stream_id, end |-> end_stream,
                        blocked |-> blocked, fault |-> fault,
                        recv |-> RecvOf(py, stream_id)]]

InitPy ==
    /\ bus = bus_init(Channels)
    /\ pc = "idle"
    /\ list = NULL
    /\ current = NULL
    /\ log = <<>>
    /\ taken = <<>>
    /\ cancelled = {}
    /\ unregistered = {}
    /\ rchannel = <<>>
    /\ before = 0
    /\ world = NULL
    /\ ev = NULL
    /\ py = py_session_init(ZeroPy)
    /\ lib = NULL

\* The peer opens the next stream.
OnBeginHeaders(stream_id, fault) ==
    /\ Running(py)
    /\ py.nghttp2.goaway = ""
    /\ \A id \in py.nghttp2.opened : id < stream_id
    /\ py' = Called(on_begin_headers_callback(
                        [py EXCEPT !.nghttp2.opened = @ \cup {stream_id},
                                   !.nghttp2.open = @ \cup {stream_id}],
                        stream_id, fault),
                    "begin_headers", stream_id, FALSE, FALSE, fault)
    /\ UNCHANGED <<busvars, sessvars, libvars>>

\* A HEADERS or DATA frame of a stream whose request has not ended.
OnFrameRecv(type, stream_id, end_stream) ==
    /\ Running(py)
    /\ stream_id \in py.nghttp2.open \ py.nghttp2.ended
    /\ py' = Called(on_frame_recv_callback(
                        [py EXCEPT !.nghttp2.ended =
                             IF end_stream THEN @ \cup {stream_id} ELSE @],
                        type, stream_id, end_stream),
                    "frame_recv", stream_id, end_stream, FALSE, "none")
    /\ UNCHANGED <<busvars, sessvars, libvars>>

\* The SETTINGS frame with the ACK flag: the peer acknowledges once.
OnSettingsAck ==
    /\ Running(py)
    /\ ~py.nghttp2.acked
    /\ py' = Called(on_frame_recv_callback(
                        [py EXCEPT !.nghttp2.acked = TRUE],
                        "NGHTTP2_SETTINGS", 0, FALSE),
                    "settings_ack", 0, FALSE, FALSE, "none")
    /\ UNCHANGED <<busvars, sessvars, libvars>>

\* A chunk of a DATA frame of a stream whose request has not ended; a
\* reset that is submitted but not sent does not stop the peer's frames.
OnDataChunkRecv(stream_id) ==
    /\ Running(py)
    /\ stream_id \in py.nghttp2.open \ py.nghttp2.ended
    /\ py' = Called(stream_on_data_chunk(py, stream_id),
                    "data_chunk_recv", stream_id, FALSE, FALSE, "none")
    /\ UNCHANGED <<busvars, sessvars, libvars>>

\* A HEADERS or DATA frame of the response was sent.
OnFrameSend(stream_id, end_stream, stream_window, window) ==
    /\ Running(py)
    /\ stream_id \in py.nghttp2.open \ (py.nghttp2.sent_end \cup py.nghttp2.rst)
    /\ py' = Called(stream_on_send_frame(
                        [py EXCEPT !.nghttp2.sent_end =
                             IF end_stream THEN @ \cup {stream_id} ELSE @],
                        stream_id, end_stream,
                        is_blocked(stream_window, window)),
                    "frame_send", stream_id, end_stream,
                    is_blocked(stream_window, window), "none")
    /\ UNCHANGED <<busvars, sessvars, libvars>>

\* The stream is closed: both sides ended it, or either side reset it.
OnStreamClose(stream_id) ==
    /\ Running(py)
    /\ stream_id \in py.nghttp2.open
    /\ py' = Called(stream_on_close(
                        [py EXCEPT !.nghttp2.open = @ \ {stream_id}],
                        stream_id),
                    "stream_close", stream_id, FALSE, FALSE, "none")
    /\ UNCHANGED <<busvars, sessvars, libvars>>

\* A watchdog whose timeout has passed fires: the registry disarms it and
\* calls its callback.
OnExpire(watchdog_id, sendable) ==
    /\ Running(py)
    /\ watchdog_exist(py, watchdog_id)
    /\ py.watchdog[watchdog_id].armed
    /\ py.watchdog[watchdog_id].age = Ticks
    /\ py' = IF watchdog_id = SETTINGS_WATCHDOG_ID
             THEN Called(py_settings_timeout(
                             [py EXCEPT !.watchdog[watchdog_id].armed = FALSE],
                             sendable),
                         "settings_timeout", 0, FALSE, FALSE, "none")
             ELSE Called(stream_timeout(
                             [py EXCEPT !.watchdog[watchdog_id].armed = FALSE],
                             watchdog_id, sendable),
                         "stream_timeout", watchdog_id \div 10, FALSE, FALSE,
                         "none")
    /\ UNCHANGED <<busvars, sessvars, libvars>>

\* Time passes for every armed watchdog; one that is due fires first.
Tick ==
    /\ Running(py)
    /\ \A id \in DOMAIN py.watchdog :
           py.watchdog[id].armed => py.watchdog[id].age < Ticks
    /\ \E id \in DOMAIN py.watchdog : py.watchdog[id].armed
    /\ py' = [py EXCEPT !.watchdog =
                  [id \in DOMAIN @ |->
                      IF @[id].armed THEN [@[id] EXCEPT !.age = @ + 1]
                      ELSE @[id]]]
    /\ UNCHANGED <<busvars, sessvars, libvars>>

NextPy ==
    \/ \E stream_id \in PyStreamIds, fault \in Faults :
           OnBeginHeaders(stream_id, fault)
    \/ \E type \in {"NGHTTP2_DATA", "NGHTTP2_HEADERS"},
          stream_id \in PyStreamIds, end_stream \in BOOLEAN :
           OnFrameRecv(type, stream_id, end_stream)
    \/ OnSettingsAck
    \/ \E stream_id \in PyStreamIds : OnDataChunkRecv(stream_id)
    \/ \E stream_id \in PyStreamIds, end_stream \in BOOLEAN,
          stream_window \in Windows, window \in Windows :
           OnFrameSend(stream_id, end_stream, stream_window, window)
    \/ \E stream_id \in PyStreamIds : OnStreamClose(stream_id)
    \/ \E watchdog_id \in WatchdogIds, sendable \in BOOLEAN :
           OnExpire(watchdog_id, sendable)
    \/ Tick

SpecPy == InitPy /\ [][NextPy]_vars

\* ======================================== deleting a protocol session twice
\* http_session_del of samples/libev and session_del of py/http2, called
\* any number of times on one session.  lib.world is the libev server with
\* one accepted connection; lib.session is the struct session of py/http2,
\* lib.py its http_session and codec, lib.freed whether nghttp2_session_del
\* has released the codec.  lib.last is the call made last and the state it
\* found.

MaxCalls == 2

\* nghttp2_session_del(session->nghttp2_session) of py/http2: releasing the
\* codec a second time is a double free.
py_nghttp2_session_del(l) ==
    IF l.freed THEN [l EXCEPT !.ub = "nghttp2_session"]
    ELSE [l EXCEPT !.freed = TRUE, !.py.nghttp2 = ZeroPy.nghttp2]

\* session_del without the memset.
py_session_del_no_memset(l) ==
    IF ~l.session.nghttp2_session THEN l
    ELSE py_nghttp2_session_del(l)

py_session_del(l) ==
    IF ~l.session.nghttp2_session THEN l
    ELSE [py_nghttp2_session_del(l) EXCEPT
              !.session = [http_session |-> FALSE, nghttp2_session |-> FALSE]]

Before(l) ==
    [world |-> l.world, session |-> l.session, py |-> l.py,
     freed |-> l.freed, ub |-> l.ub]

Call(l, op, found) ==
    [l EXCEPT !.calls[op] = @ + 1,
              !.last = [op |-> op, before |-> Before(found)]]

InitDel ==
    /\ bus = bus_init(Channels)
    /\ pc = "idle"
    /\ list = NULL
    /\ current = NULL
    /\ log = <<>>
    /\ taken = <<>>
    /\ cancelled = {}
    /\ unregistered = {}
    /\ rchannel = <<>>
    /\ before = 0
    /\ world = NULL
    /\ ev = NULL
    /\ py = NULL
    /\ lib = [world |-> _accept(main("samples"), 1),
              session |-> [http_session |-> TRUE, nghttp2_session |-> TRUE],
              py |-> py_session_init(ZeroPy),
              freed |-> FALSE,
              ub |-> "",
              calls |-> [op \in {"http_session_del", "session_del"} |-> 0],
              last |-> [op |-> "session_init", before |-> NULL]]

\* _begin_headers for a stream the table does not hold.
DelBeginHeaders(id) ==
    /\ lib.world.http[1].nghttp2_session
    /\ hash_table_get(lib.world.http[1].streams, id) = NoStream
    /\ lib' = [lib EXCEPT !.world = _begin_headers(@, 1, id)]
    /\ UNCHANGED <<busvars, sessvars, pyvars>>

DelGracefulShutdown ==
    /\ lib.world.http[1].nghttp2_session
    /\ lib.world.http[1].shutdown_event = NULL
    /\ lib' = [lib EXCEPT !.world = http_session_graceful_shutdown(@, 1)]
    /\ UNCHANGED <<busvars, sessvars, pyvars>>

HttpSessionDel ==
    /\ lib.calls["http_session_del"] < MaxCalls
    /\ lib.world.session[1].handle
    /\ lib' = Call([lib EXCEPT !.world = http_session_del(@, 1)],
                   "http_session_del", lib)
    /\ UNCHANGED <<busvars, sessvars, pyvars>>

\* on_begin_headers and the SETTINGS ACK of py/http2, called by a live codec.
DelStreamOnOpen(stream_id) ==
    /\ lib.session.nghttp2_session
    /\ ~watchdog_exist(lib.py, recv_watchdog_id(stream_id))
    /\ lib' = [lib EXCEPT !.py = stream_on_open(@, stream_id, "none")]
    /\ UNCHANGED <<busvars, sessvars, pyvars>>

DelSettingsAck ==
    /\ lib.session.nghttp2_session
    /\ watchdog_exist(lib.py, SETTINGS_WATCHDOG_ID)
    /\ lib' = [lib EXCEPT !.py = session_settings_ack(@)]
    /\ UNCHANGED <<busvars, sessvars, pyvars>>

PySessionDel ==
    /\ lib.calls["session_del"] < MaxCalls
    /\ lib.ub = ""
    /\ lib' = Call(py_session_del(lib), "session_del", lib)
    /\ UNCHANGED <<busvars, sessvars, pyvars>>

NextDel ==
    \/ \E id \in StreamIds : DelBeginHeaders(id)
    \/ DelGracefulShutdown
    \/ HttpSessionDel
    \/ \E stream_id \in PyStreamIds : DelStreamOnOpen(stream_id)
    \/ DelSettingsAck
    \/ PySessionDel

SpecDel == InitDel /\ [][NextDel]_vars

\* ============================================ sessions that share one bus
\* Two accepted connections of the samples build and the one bus main
\* creates.  Every http_session_graceful_shutdown registers _send_buffer_empty
\* on CHANNEL_SESSION_SEND_BUFFER_EMPTY with user_data NULL; an event on that
\* channel carries the session whose send buffer emptied and is delivered by
\* _on_message to every recipient of the channel.  lib.last is the event
\* delivered last and the world it found.

Peers == 1..(MaxSessions + 1)

\* main, with room for the connections of Peers.
main_shared ==
    [main("samples") EXCEPT !.session = [s \in Peers |-> NoSession],
                            !.http = [s \in Peers |-> ZeroHttp],
                            !.codec = [s \in Peers |-> NoCodec],
                            !.note = [s \in Peers |-> NoNote]]

RECURSIVE accept_all(_, _)
accept_all(w, s) ==
    IF s \notin Peers THEN w ELSE accept_all(_accept(w, s), s + 1)

InitShared ==
    /\ bus = bus_init(Channels)
    /\ pc = "idle"
    /\ list = NULL
    /\ current = NULL
    /\ log = <<>>
    /\ taken = <<>>
    /\ cancelled = {}
    /\ unregistered = {}
    /\ rchannel = <<>>
    /\ before = 0
    /\ world = NULL
    /\ ev = NULL
    /\ py = NULL
    /\ lib = [world |-> accept_all(main_shared, 1),
              last |-> [op |-> "main", x |-> 0, before |-> NULL]]

Live(l, s) ==
    /\ l.world.ub = ""
    /\ ~l.world.stuck
    /\ l.world.session[s].handle

SharedBeginHeaders(s, id) ==
    /\ Live(lib, s)
    /\ hash_table_get(lib.world.http[s].streams, id) = NoStream
    /\ lib' = [lib EXCEPT !.world = _begin_headers(@, s, id)]
    /\ UNCHANGED <<busvars, sessvars, pyvars>>

SharedGracefulShutdown(s) ==
    /\ Live(lib, s)
    /\ lib.world.http[s].shutdown_event = NULL
    /\ lib' = [lib EXCEPT !.world = http_session_graceful_shutdown(@, s)]
    /\ UNCHANGED <<busvars, sessvars, pyvars>>

\* _on_message delivers the event published for session x, whose send
\* buffer is empty.
SharedSendBufferEmpty(x) ==
    /\ Live(lib, x)
    /\ buffer_is_empty(lib.world.session[x].send_buffer)
    /\ lib' = [world |-> deliver(lib.world, CHANNEL_SESSION_SEND_BUFFER_EMPTY,
                                 session_addr(x)),
               last |-> [op |-> "send_buffer_empty", x |-> x,
                         before |-> lib.world]]
    /\ UNCHANGED <<busvars, sessvars, pyvars>>

NextShared ==
    \/ \E s \in 1..(MaxSessions + 1), id \in StreamIds :
           SharedBeginHeaders(s, id)
    \/ \E s \in 1..(MaxSessions + 1) : SharedGracefulShutdown(s)
    \/ \E x \in 1..(MaxSessions + 1) : SharedSendBufferEmpty(x)

SpecShared == InitShared /\ [][NextShared]_vars

\* ================================================ the bus of libev-echo
\* samples/libev-echo/lib/bus.c keeps its messages in a deque (deque.c, the
\* same four functions as list.c) and walks it in place: _on_message goes
\* from bus->messages along next, frees every message after its delivery
\* without unlinking it, and sets bus->messages to NULL at the end.
\* lib.messages is the head, lib.deque the cursor of the walk, lib.links
\* the prev/next of every message ever allocated, lib.freed the messages
\* free() was called for; memory is not reused.  lib.ub: freed memory was
\* read or written.

deque_enque(head, links, self) == list_insert(head, links, self)
deque_deque(head, links, self) == list_remove(head, links, self)

EchoQueue(l) == Chain(l.links, l.messages, Cardinality(DOMAIN l.links) + 1)

EchoUb(l) == [l EXCEPT !.ub = TRUE]

\* bus_enque_message; deque_insert writes prev of the node bus->messages
\* points at.
bus_enque_message(l, m, data, nwrite) ==
    LET r == deque_enque(l.messages, (m :> NoLink) @@ l.links, m)
        l1 == [l EXCEPT !.messages = r.head, !.links = r.links,
                        !.data = (m :> data) @@ @]
        u == deque_deque(l1.messages, l1.links, m)
    IN  IF l.messages \in l.freed THEN EchoUb(l)
        ELSE IF nwrite = "error"
        THEN [l1 EXCEPT !.messages = u.head, !.links = u.links,
                        !.freed = @ \cup {m}, !.pc = "abort"]
        ELSE [l1 EXCEPT !.pipe = IF nwrite = "ok" THEN @ + 1 ELSE @]

\* The loop of bus_cancel_messages from node p on; the predicate reads the
\* message.
RECURSIVE echo_cancel_loop(_, _, _, _)
echo_cancel_loop(l, p, data, n) ==
    IF p = NULL \/ n = 0 THEN l
    ELSE IF p \in l.freed THEN EchoUb(l)
    ELSE LET next == l.links[p].next
             r == deque_deque(l.messages, l.links, p)
         IN  IF l.data[p] = data
             THEN echo_cancel_loop([l EXCEPT !.messages = r.head,
                                             !.links = r.links,
                                             !.freed = @ \cup {p},
                                             !.cancelled = @ \cup {p}],
                                   next, data, n - 1)
             ELSE echo_cancel_loop(l, next, data, n - 1)

echo_cancel_messages(l, data) ==
    echo_cancel_loop(l, l.messages, data, Cardinality(DOMAIN l.links) + 1)

InitEcho ==
    /\ bus = bus_init(Channels)
    /\ pc = "idle"
    /\ list = NULL
    /\ current = NULL
    /\ log = <<>>
    /\ taken = <<>>
    /\ cancelled = {}
    /\ unregistered = {}
    /\ rchannel = <<>>
    /\ before = 0
    /\ world = NULL
    /\ ev = NULL
    /\ py = NULL
    /\ lib = [messages |-> NULL, links |-> <<>>, data |-> <<>>,
              freed |-> {}, deque |-> NULL, pc |-> "idle",
              delivered |-> <<>>, cancelled |-> {}, during |-> {},
              pipe |-> 0, ub |-> FALSE]

EchoInUserCode == lib.pc \in {"idle", "callback"} /\ ~lib.ub

\* bus_broadcast or bus_anycast, from the loop or from a recipient.
\* lib.during: the messages published while a pass was running.
EchoPublish(data, nwrite) ==
    /\ EchoInUserCode
    /\ Cardinality(DOMAIN lib.links) < MaxMessages
    /\ WritePossible(lib, nwrite)
    /\ lib' = [bus_enque_message(lib, Cardinality(DOMAIN lib.links) + 1,
                                 data, nwrite)
                   EXCEPT !.during = IF lib.pc = "callback"
                                     THEN @ \cup
                                          {Cardinality(DOMAIN lib.links) + 1}
                                     ELSE @]
    /\ UNCHANGED <<busvars, sessvars, pyvars>>

EchoCancelMessages(data) ==
    /\ EchoInUserCode
    /\ lib.messages # NULL
    /\ lib' = echo_cancel_messages(lib, data)
    /\ UNCHANGED <<busvars, sessvars, pyvars>>

\* _on_message up to its for loop.
EchoOnMessage ==
    /\ lib.pc = "idle" /\ ~lib.ub
    /\ lib.pipe > 0
    /\ lib' = [lib EXCEPT !.pipe = 0, !.deque = lib.messages, !.pc = "walk"]
    /\ UNCHANGED <<busvars, sessvars, pyvars>>

\* The body of the loop up to the call of the recipients: message->type,
\* message->channel and message->data are read.
EchoDeliver ==
    /\ lib.pc = "walk" /\ ~lib.ub
    /\ lib.deque # NULL
    /\ lib' = IF lib.deque \in lib.freed THEN EchoUb(lib)
              ELSE [lib EXCEPT !.delivered = Append(@, lib.deque),
                               !.pc = "callback"]
    /\ UNCHANGED <<busvars, sessvars, pyvars>>

\* The recipients have returned: next = deque->next; free(message).
EchoNext ==
    /\ lib.pc = "callback" /\ ~lib.ub
    /\ lib' = IF lib.deque \in lib.freed THEN EchoUb(lib)
              ELSE [lib EXCEPT !.deque = lib.links[lib.deque].next,
                               !.freed = @ \cup {lib.deque},
                               !.pc = "walk"]
    /\ UNCHANGED <<busvars, sessvars, pyvars>>

\* The loop has ended: bus->messages = NULL.
EchoReturn ==
    /\ lib.pc = "walk" /\ ~lib.ub
    /\ lib.deque = NULL
    /\ lib' = [lib EXCEPT !.messages = NULL, !.pc = "idle"]
    /\ UNCHANGED <<busvars, sessvars, pyvars>>

NextEcho ==
    \/ \E data \in Data, nwrite \in WriteResults : EchoPublish(data, nwrite)
    \/ \E data \in Data : EchoCancelMessages(data)
    \/ EchoOnMessage
    \/ EchoDeliver
    \/ EchoNext
    \/ EchoReturn

SpecEcho == InitEcho /\ [][NextEcho]_vars

\* ============================================ the watchdog ids of a stream
\* recv_watchdog_id and send_watchdog_id over the stream ids of HTTP/2,
\* 1 .. 2^31-1, and the division of stream_timeout that takes a watchdog id
\* back to its stream.  lib.open holds the streams that are open with the two
\* ids stream_on_open computed for them; lib.last is the timeout that fired
\* last: the stream `of` whose watchdog fired, the watchdog id, and the
\* stream id stream_timeout derived from it.

\* ------------------------------------------------------------- bounds
IdProbe == 2            \* stream ids sampled on each side of a landmark

\* The stream whose send watchdog id is 2^33 before it is cut to 32 bits.
ZeroSendId == 858993459

\* Stream ids from both ends of the range, from both sides of the largest
\* id whose product with 10 fits an int, and around ZeroSendId.
StreamIdSamples ==
    (1..IdProbe)
    \cup {(INT_MAX \div 10) + i : i \in (1 - IdProbe)..IdProbe}
    \cup {ZeroSendId + i : i \in (1 - IdProbe)..(IdProbe - 1)}
    \cup {INT_MAX - i : i \in 0..(IdProbe - 1)}

InitIds ==
    /\ bus = bus_init(Channels)
    /\ pc = "idle"
    /\ list = NULL
    /\ current = NULL
    /\ log = <<>>
    /\ taken = <<>>
    /\ cancelled = {}
    /\ unregistered = {}
    /\ rchannel = <<>>
    /\ before = 0
    /\ world = NULL
    /\ ev = NULL
    /\ py = NULL
    /\ lib = [open |-> {},
              last |-> [of |-> 0, watchdog_id |-> 0, stream_id |-> 0],
              ub |-> FALSE]

\* stream_on_open computes the two ids of the stream.  Where the product
\* does not fit an int the behaviour is undefined: the build either wraps
\* (the multiply instruction) or traps (-ftrapv, a sanitizer).
IdsStreamOpen(stream_id, outcome) ==
    /\ ~lib.ub
    /\ \A o \in lib.open : o.id # stream_id
    /\ Cardinality(lib.open) < MaxPyStreams
    /\ lib' = IF int_overflows(stream_id, 2) /\ outcome = "trap"
              THEN [lib EXCEPT !.ub = TRUE]
              ELSE [lib EXCEPT !.open =
                        @ \cup {[id |-> stream_id,
                                 recv |-> recv_watchdog_id(stream_id),
                                 send |-> send_watchdog_id(stream_id)]}]
    /\ UNCHANGED <<busvars, sessvars, pyvars>>

\* One of the two watchdogs of an open stream fires: stream_timeout takes
\* the stream id from the watchdog id.
IdsStreamTimeout(of, slot) ==
    /\ ~lib.ub
    /\ \E o \in lib.open :
           /\ o.id = of
           /\ LET watchdog_id == IF slot = 1 THEN o.recv ELSE o.send
              IN  lib' = [lib EXCEPT !.last =
                              [of |-> of, watchdog_id |-> watchdog_id,
                               stream_id |-> int_div(watchdog_id, 10)]]
    /\ UNCHANGED <<busvars, sessvars, pyvars>>

\* stream_on_close: the stream and its ids are gone.
IdsStreamClose(stream_id) ==
    /\ ~lib.ub
    /\ \E o \in lib.open : o.id = stream_id
    /\ lib' = [lib EXCEPT !.open = {o \in @ : o.id # stream_id}]
    /\ UNCHANGED <<busvars, sessvars, pyvars>>

NextIds ==
    \/ \E stream_id \in StreamIdSamples, outcome \in {"wrap", "trap"} :
           IdsStreamOpen(stream_id, outcome)
    \/ \E of \in StreamIdSamples, slot \in {1, 2} : IdsStreamTimeout(of, slot)
    \/ \E stream_id \in StreamIdSamples : IdsStreamClose(stream_id)

SpecIds == InitIds /\ [][NextIds]_vars

\* ------------------------------------------------ claims about the server

Queued == {world.bus.message[m] : m \in Range(Queue(world.bus))}
TransportErrors == {"EOF", "ECONNRESET", "EPIPE", "EIO"}

\* C2: between handlers no queued message carries a session, or the
\* protocol session embedded in it, whose memory session_del has released.
C2_NoMessageOfDeletedSession ==
    \A message \in Queued :
        message.data[1] \in {"session", "http_session"}
            => world.session[container_of(message.data)].handle

\* C3: a session for which graceful shutdown was requested with bytes in
\* its send buffer is closed, unless by a transport error, only after its
\* send-buffer-emptied event was delivered, and no byte of the send buffer
\* is discarded by the close.
C3_GracefulShutdown ==
    \A s \in Sessions :
        (/\ world.note[s].closed
         /\ world.note[s].requested > 0
         /\ world.note[s].cause \notin TransportErrors)
            => /\ world.note[s].emptied
               /\ world.note[s].dropped = 0

\* C4: once http_session_del has run for a session, its settings timer and
\* the recv and send timers of all its streams are stopped.
C4_NoTimerOfDeletedSession ==
    \A s \in Sessions :
        world.note[s].http_deleted =>
            /\ ~world.http[s].settings_timer
            /\ \A stream \in DOMAIN world.stream :
                   world.stream[stream].session = s =>
                       /\ ~world.stream[stream].recv_timer
                       /\ ~world.stream[stream].send_timer

\* C7: between handlers no queued message carries a stream that has been
\* freed.
C7_NoMessageOfFreedStream ==
    \A message \in Queued :
        message.data[1] = "stream" => message.data \in DOMAIN world.stream

\* The streams of session s as the codec sees them.
Lifecycle(s, id) ==
    LET c == world.codec[s]
        stream == stream_addr(s, id)
        entry == hash_table_get(world.http[s].streams, id)
    IN  /\ (id \in c.open)
             => /\ entry = stream
                /\ stream \in DOMAIN world.stream
                /\ id \notin c.rst
                       => world.stream[stream].recv_timer = (id \notin c.ended)
                /\ ~world.stream[stream].send_timer
        /\ (id \in c.opened \ c.open)
             => /\ entry = NoStream
                /\ stream \notin DOMAIN world.stream

MaxEntries == 2         \* entries the table holds at one time

\* Stream ids that fall into bucket 0 (39, 117) and into bucket 1 (1, 79).
TableKeys == {1, 39, 79, 117}
TableValues == {stream_addr(1, 1), stream_addr(1, 3)}

Entries(table) ==
    UNION {{<<table.table[i][j].key, table.table[i][j].value>> :
                j \in DOMAIN table.table[i]} : i \in Buckets}

InitTable ==
    /\ bus = bus_init(Channels)
    /\ pc = "idle"
    /\ list = NULL
    /\ current = NULL
    /\ log = <<>>
    /\ taken = <<>>
    /\ cancelled = {}
    /\ unregistered = {}
    /\ rchannel = <<>>
    /\ before = 0
    /\ world = NULL
    /\ ev = NULL
    /\ py = NULL
    /\ lib = [table |-> hash_table_init(STREAM_HASH_TABLE_SIZE),
              map |-> <<>>, iterator |-> [entry |-> NULL, index |-> 0],
              walk |-> "idle", seen |-> <<>>, ub |-> FALSE,
              last |-> [op |-> "init", key |-> 0, present |-> FALSE,
                        ret |-> FALSE, value |-> NoStream]]

\* hash_table_put(&table, &entry, old_entry).  With the key present the old
\* key and value are stored through old_entry, which _begin_headers passes
\* as NULL.
TablePut(key, value, old_entry) ==
    /\ ~lib.ub
    /\ key \in DOMAIN lib.map \/ Cardinality(DOMAIN lib.map) < MaxEntries
    /\ lib' = [lib EXCEPT
                  !.table = hash_table_put(@, key, value).table,
                  !.map = IF key \in DOMAIN @ THEN @ ELSE (key :> value) @@ @,
                  !.ub = hash_table_put(lib.table, key, value).replace
                             /\ old_entry = NULL,
                  !.walk = "idle", !.seen = <<>>,
                  !.iterator = [entry |-> NULL, index |-> 0],
                  !.last = [op |-> "put", key |-> key,
                            present |-> key \in DOMAIN lib.map,
                            ret |-> hash_table_put(lib.table, key,
                                                   value).replace,
                            value |-> value]]
    /\ UNCHANGED <<busvars, sessvars, pyvars>>

\* hash_table_pop(&table, key, &entry)
TablePop(key) ==
    /\ ~lib.ub
    /\ lib' = [lib EXCEPT
                  !.table = hash_table_pop(@, key).table,
                  !.map = [k \in DOMAIN @ \ {key} |-> @[k]],
                  !.walk = "idle", !.seen = <<>>,
                  !.iterator = [entry |-> NULL, index |-> 0],
                  !.last = [op |-> "pop", key |-> key,
                            present |-> key \in DOMAIN lib.map,
                            ret |-> hash_table_pop(lib.table, key).found,
                            value |-> hash_table_pop(lib.table, key).value]]
    /\ UNCHANGED <<busvars, sessvars, pyvars>>

\* hash_table_get(&table, key)
TableGet(key) ==
    /\ ~lib.ub
    /\ lib' = [lib EXCEPT
                  !.last = [op |-> "get", key |-> key,
                            present |-> key \in DOMAIN lib.map,
                            ret |-> hash_table_get(lib.table, key) # NoStream,
                            value |-> hash_table_get(lib.table, key)]]
    /\ UNCHANGED <<busvars, sessvars, pyvars>>

\* struct hash_table_iterator iterator = {0};
TableWalk ==
    /\ ~lib.ub
    /\ lib.walk # "walking"
    /\ lib' = [lib EXCEPT !.iterator = [entry |-> NULL, index |-> 0],
                          !.walk = "walking", !.seen = <<>>]
    /\ UNCHANGED <<busvars, sessvars, pyvars>>

\* while (hash_table_next(&table, &iterator)): one call; the body reads
\* iterator.entry.
TableNext ==
    /\ ~lib.ub
    /\ lib.walk = "walking"
    /\ LET r == hash_table_next(lib.table, lib.iterator)
       IN  lib' = [lib EXCEPT
                      !.iterator = r.iterator,
                      !.walk = IF r.found THEN "walking" ELSE "done",
                      !.seen = IF r.found
                               THEN Append(@, lib.table.table
                                                [r.iterator.index]
                                                [r.iterator.entry])
                               ELSE @]
    /\ UNCHANGED <<busvars, sessvars, pyvars>>

NextTable ==
    \/ \E key \in TableKeys, value \in TableValues,
          old_entry \in {NULL, 1} : TablePut(key, value, old_entry)
    \/ \E key \in TableKeys : TablePop(key)
    \/ \E key \in TableKeys : TableGet(key)
    \/ TableWalk
    \/ TableNext

SpecTable == InitTable /\ [][NextTable]_vars

\* ============================================== a buffer on its own
\* buffer.c driven through its whole interface.  lib.buffer is struct
\* buffer, lib.mem the bytes malloc returned, lib.written every byte put
\* into the buffer and lib.read every byte taken out of it, in order.

\* ------------------------------------------------------------- bounds
BufSize == 3            \* the size passed to buffer_alloc
MaxWritten == 5         \* bytes written into the buffer in one run

Bytes == {1, 2}
Chunks(n) == UNION {[1..k -> Bytes] : k \in 0..n}
Take(s, n) == SubSeq(s, 1, Min2(n, Len(s)))

\* memmove(buffer->buffer + at, bytes, Len(bytes))
mem_write(mem, at, bytes) ==
    [i \in DOMAIN mem |->
        IF i > at /\ i <= at + Len(bytes) THEN bytes[i - at] ELSE mem[i]]

\* the n bytes at buffer->buffer + at
mem_read(mem, at, n) == SubSeq(mem, at + 1, at + n)

Unread(l) == mem_read(l.mem, l.buffer.outgoing, buffer_used_space(l.buffer))

Did(l, op, n, ret) ==
    [l EXCEPT !.last = [op |-> op, n |-> n, ret |-> ret,
                        before |-> lib.buffer]]

Allocated ==
    /\ lib.buffer.buffer
    /\ ~lib.aborted

InitBuffer ==
    /\ bus = bus_init(Channels)
    /\ pc = "idle"
    /\ list = NULL
    /\ current = NULL
    /\ log = <<>>
    /\ taken = <<>>
    /\ cancelled = {}
    /\ unregistered = {}
    /\ rchannel = <<>>
    /\ before = 0
    /\ world = NULL
    /\ ev = NULL
    /\ py = NULL
    /\ lib = [buffer |-> buffer_alloc(BufSize),
              mem |-> [i \in 1..BufSize |-> 0],
              written |-> <<>>, read |-> <<>>, aborted |-> FALSE,
              last |-> [op |-> "buffer_alloc", n |-> BufSize, ret |-> 0,
                        before |-> NoBuffer]]

\* buffer_free, then buffer_alloc of the same struct buffer.
BufferRealloc ==
    /\ Allocated
    /\ lib.written # <<>>
    /\ buffer_free(lib.buffer) = NoBuffer
    /\ lib' = [buffer |-> buffer_alloc(BufSize),
               mem |-> [i \in 1..BufSize |-> 0],
               written |-> <<>>, read |-> <<>>, aborted |-> FALSE,
               last |-> [op |-> "buffer_free", n |-> BufSize, ret |-> 0,
                         before |-> lib.buffer]]
    /\ UNCHANGED <<busvars, sessvars, pyvars>>

\* The caller fills the view of buffer_incoming_view with as many of
\* `bytes` as fit and calls buffer_incoming_provided(Len(bytes)); expect
\* aborts when that is more than the view's size.
BufferIncomingProvided(bytes) ==
    /\ Allocated
    /\ Len(lib.written) + Len(bytes) <= MaxWritten
    /\ lib' = IF Len(bytes) <= buffer_incoming_view(lib.buffer)
              THEN Did([lib EXCEPT
                           !.mem = mem_write(@, lib.buffer.incoming, bytes),
                           !.buffer = buffer_incoming_provided(@, Len(bytes)),
                           !.written = @ \o bytes],
                       "incoming_provided", Len(bytes), 0)
              ELSE Did([lib EXCEPT !.aborted = TRUE],
                       "incoming_provided", Len(bytes), 0)
    /\ UNCHANGED <<busvars, sessvars, pyvars>>

\* buffer_incoming_mem(buffer, bytes, Len(bytes)): _read copies what fits.
BufferIncomingMem(bytes) ==
    /\ Allocated
    /\ Len(lib.written) + Len(bytes) <= MaxWritten
    /\ lib' = Did([lib EXCEPT
                      !.mem = mem_write(@, lib.buffer.incoming,
                                        Take(bytes, buffer_incoming_view(
                                                        lib.buffer))),
                      !.buffer = buffer_incoming_mem(@, Len(bytes)),
                      !.written = @ \o Take(bytes, buffer_incoming_view(
                                                       lib.buffer))],
                  "incoming_mem", Len(bytes),
                  Min2(Len(bytes), buffer_incoming_view(lib.buffer)))
    /\ UNCHANGED <<busvars, sessvars, pyvars>>

\* buffer_incoming_net: read(fd) stores `bytes` at the view and returns
\* their number, or stores nothing and returns -1.
BufferIncomingNet(bytes, nread) ==
    /\ Allocated
    /\ Len(lib.written) + Len(bytes) <= MaxWritten
    /\ Len(bytes) <= buffer_incoming_view(lib.buffer)
    /\ nread \in {-1, Len(bytes)}
    /\ nread = -1 => bytes = <<>>
    /\ buffer_incoming_view(lib.buffer) = 0 => nread = 0
    /\ lib' = Did([lib EXCEPT
                      !.mem = mem_write(@, lib.buffer.incoming, bytes),
                      !.buffer = buffer_incoming(@, nread),
                      !.written = @ \o bytes],
                  "incoming_net", buffer_incoming_view(lib.buffer), nread)
    /\ UNCHANGED <<busvars, sessvars, pyvars>>

\* The caller reads the first n bytes of the view of buffer_outgoing_view
\* and calls buffer_outgoing_consumed(n); expect aborts when that is more
\* than the view's size.
BufferOutgoingConsumed(n) ==
    /\ Allocated
    /\ lib' = IF n <= buffer_used_space(lib.buffer)
              THEN Did([lib EXCEPT
                           !.read = @ \o mem_read(
                               lib.mem, buffer_outgoing_view(lib.buffer).outgoing,
                               n),
                           !.buffer = buffer_outgoing_consumed(
                                          buffer_outgoing_view(@), n)],
                       "outgoing_consumed", n, 0)
              ELSE Did([lib EXCEPT
                           !.buffer = buffer_outgoing_view(@),
                           !.aborted = TRUE],
                       "outgoing_consumed", n, 0)
    /\ UNCHANGED <<busvars, sessvars, pyvars>>

\* buffer_outgoing_mem(buffer, buf, count): _write copies min(count, size
\* of the view) bytes out.  buffer_outgoing_net: send(fd) takes nwrite of
\* them, or fails with -1.
BufferOutgoing(op, count, nwrite) ==
    /\ Allocated
    /\ op = "outgoing_mem"
           => nwrite = Min2(count, buffer_used_space(lib.buffer))
    /\ op = "outgoing_net"
           => /\ count = buffer_used_space(lib.buffer)
              /\ nwrite \in -1..count
              /\ count = 0 => nwrite = 0
    /\ lib' = Did([lib EXCEPT
                      !.read = @ \o mem_read(
                          lib.mem, buffer_outgoing_view(lib.buffer).outgoing,
                          IF nwrite = -1 THEN 0 ELSE nwrite),
                      !.buffer = buffer_outgoing(@, nwrite)],
                  op, count, nwrite)
    /\ UNCHANGED <<busvars, sessvars, pyvars>>

NextBuffer ==
    \/ BufferRealloc
    \/ \E bytes \in Chunks(BufSize + 1) : BufferIncomingProvided(bytes)
    \/ \E bytes \in Chunks(BufSize + 1) : BufferIncomingMem(bytes)
    \/ \E bytes \in Chunks(BufSize), nread \in -1..BufSize :
           BufferIncomingNet(bytes, nread)
    \/ \E n \in 0..(BufSize + 1) : BufferOutgoingConsumed(n)
    \/ \E op \in {"outgoing_mem", "outgoing_net"}, count \in 0..(BufSize + 1),
          nwrite \in -1..BufSize : BufferOutgoing(op, count, nwrite)

SpecBuffer == InitBuffer /\ [][NextBuffer]_vars

\* ====================================== the codec's send callbacks
\* _send and _send_data of prototypes/libev/http2d/callbacks.c over the
\* send buffer of one session.  lib.session[1] holds the fields of
\* struct session they use, lib.mem the bytes of the send buffer,
\* lib.result what the callback returned.

\* ------------------------------------------------------------- bounds
SendBufSize == 11       \* the size of the send buffer
MaxPadlen == 2          \* frame->data.padlen
MaxLength == 1          \* bytes of one call of either callback

HEADER_SIZE == 9

Nwrite(n) == [code |-> "nwrite", nwrite |-> n]
Sentinel(code) == [code |-> code, nwrite |-> 0]

\* The return statement of _send for the result nwrite of session_send.
send_return(nwrite) ==
    IF nwrite = 0 THEN Sentinel("NGHTTP2_ERR_WOULDBLOCK")
    ELSE IF nwrite < 0 THEN Sentinel("NGHTTP2_ERR_CALLBACK_FAILURE")
    ELSE Nwrite(nwrite)

\* _send reporting would-block once the write has filled the buffer.
callbacks_send_full(l, s, length) ==
    [session_send(l, s, length)
        EXCEPT !.result =
                   IF buffer_is_full(
                          session_send(l, s, length).session[s].send_buffer)
                   THEN Sentinel("NGHTTP2_ERR_WOULDBLOCK")
                   ELSE send_return(session_send(l, s, length).ret)]

\* _send of callbacks.c
callbacks_send(l, s, length) ==
    [session_send(l, s, length)
        EXCEPT !.result = send_return(session_send(l, s, length).ret)]

Zeros(n) == [i \in 1..n |-> 0]

\* The bytes _send_data puts at view.data: framehd, the pad length, the
\* data (zeros for now), the padding.
Frame(padlen, length) ==
    [i \in 1..HEADER_SIZE |-> 2]
        \o (IF padlen > 0 THEN <<padlen - 1>> ELSE <<>>)
        \o Zeros(length)
        \o (IF padlen > 1 THEN Zeros(padlen - 1) ELSE <<>>)

\* _send_data of callbacks.c
_send_data(l, s, padlen, length) ==
    IF HEADER_SIZE + padlen + length
           > buffer_incoming_view(l.session[s].send_buffer)
    THEN [session_flush_send_buffer(l, s)
             EXCEPT !.result = Sentinel("NGHTTP2_ERR_WOULDBLOCK")]
    ELSE [_check_send_buffer_watermark(
              [l EXCEPT !.mem = mem_write(@, l.session[s].send_buffer.incoming,
                                          Frame(padlen, length)),
                        !.session[s].send_buffer =
                            buffer_incoming_provided(
                                @, Len(Frame(padlen, length)))],
              s)
             EXCEPT !.result = Nwrite(0)]

Returned(l, op, n, padlen) ==
    [l EXCEPT !.last = [op |-> op, n |-> n, padlen |-> padlen,
                        before |-> lib.session[1].send_buffer,
                        mem |-> lib.mem]]

InitSend ==
    /\ bus = bus_init(Channels)
    /\ pc = "idle"
    /\ list = NULL
    /\ current = NULL
    /\ log = <<>>
    /\ taken = <<>>
    /\ cancelled = {}
    /\ unregistered = {}
    /\ rchannel = <<>>
    /\ before = 0
    /\ world = NULL
    /\ ev = NULL
    /\ py = NULL
    /\ lib = [session |-> <<[send_buffer |-> buffer_alloc(SendBufSize),
                            send_watcher |-> FALSE]>>,
              mem |-> Zeros(SendBufSize),
              ret |-> 0,
              result |-> Nwrite(0),
              last |-> [op |-> "init", n |-> 0, padlen |-> 0,
                        before |-> NoBuffer, mem |-> <<>>]]

\* The codec calls its send callback with `length` bytes (ones).
CallbackSend(length) ==
    /\ lib' = Returned([callbacks_send(lib, 1, length)
                         EXCEPT !.mem = mem_write(
                             @, lib.session[1].send_buffer.incoming,
                             Take([i \in 1..length |-> 1],
                                  buffer_incoming_view(
                                      lib.session[1].send_buffer)))],
                     "send", length, 0)
    /\ UNCHANGED <<busvars, sessvars, pyvars>>

\* The codec calls its send-data callback for a DATA frame.
CallbackSendData(padlen, length) ==
    /\ lib' = Returned(_send_data(lib, 1, padlen, length),
                     "send_data", length, padlen)
    /\ UNCHANGED <<busvars, sessvars, pyvars>>

\* _send of session.c writes nwrite bytes of the send buffer to the socket
\* when the send watcher is active.
TransportSend(nwrite) ==
    /\ lib.session[1].send_watcher
    /\ nwrite <= buffer_used_space(lib.session[1].send_buffer)
    /\ lib' = Returned([lib EXCEPT
                         !.session[1].send_buffer = buffer_outgoing(@, nwrite),
                         !.session[1].send_watcher =
                             ~buffer_is_empty(
                                 buffer_outgoing(lib.session[1].send_buffer,
                                                 nwrite))],
                     "transport", nwrite, 0)
    /\ UNCHANGED <<busvars, sessvars, pyvars>>

NextSend ==
    \/ \E length \in 1..MaxLength : CallbackSend(length)
    \/ \E padlen \in 0..MaxPadlen, length \in 0..MaxLength :
           CallbackSendData(padlen, length)
    \/ \E nwrite \in 1..SendBufSize : TransportSend(nwrite)

SpecSend == InitSend /\ [][NextSend]_vars

\* ============================================ the watchdogs of a stream
\* The recv and the send watchdog of stream 1 against a clock.  lib.session
\* is the session with its registry, lib.now the time, lib.since the time
\* each watchdog was last started or restarted at, lib.first the time it was
\* started at, lib.fired the calls of stream_timeout so far.

\* ------------------------------------------------------------- bounds
TickLength == 5         \* the time one tick of the clock takes
MaxTime == 20           \* the clock stops here
MaxFired == 2           \* expiries in one run

RECV_TIMEOUT == 10

StreamWatchdogs == {recv_watchdog_id(1), send_watchdog_id(1)}

Stamp(l, id, first) ==
    IF l.session.err # "ok" THEN l
    ELSE [l EXCEPT !.since[id] = l.now,
                   !.first[id] = IF first THEN l.now ELSE @]

InitWatchdog ==
    /\ bus = bus_init(Channels)
    /\ pc = "idle"
    /\ list = NULL
    /\ current = NULL
    /\ log = <<>>
    /\ taken = <<>>
    /\ cancelled = {}
    /\ unregistered = {}
    /\ rchannel = <<>>
    /\ before = 0
    /\ world = NULL
    /\ ev = NULL
    /\ py = NULL
    /\ lib = [session |-> watchdog_add(
                              watchdog_add(ZeroPy, recv_watchdog_id(1), FALSE),
                              send_watchdog_id(1), FALSE),
              now |-> 0,
              since |-> [id \in StreamWatchdogs |-> 0],
              first |-> [id \in StreamWatchdogs |-> 0],
              fired |-> <<>>]

WatchdogStart(id) ==
    /\ lib' = Stamp([lib EXCEPT !.session = watchdog_start(@, id, FALSE)],
                    id, TRUE)
    /\ UNCHANGED <<busvars, sessvars, pyvars>>

WatchdogRestart(id) ==
    /\ lib' = Stamp([lib EXCEPT !.session = watchdog_restart(@, id)],
                    id, FALSE)
    /\ UNCHANGED <<busvars, sessvars, pyvars>>

WatchdogStop(id) ==
    /\ lib.session.watchdog[id].armed
    /\ lib' = [lib EXCEPT !.session = watchdog_stop(@, id)]
    /\ UNCHANGED <<busvars, sessvars, pyvars>>

\* TickLength passes for every armed watchdog; one that is due fires
\* first.
WatchdogTick ==
    /\ lib.now < MaxTime
    /\ \A id \in StreamWatchdogs :
           lib.session.watchdog[id].armed
               => lib.session.watchdog[id].age + TickLength <= RECV_TIMEOUT
    /\ lib' = [lib EXCEPT
                  !.now = @ + TickLength,
                  !.session.watchdog =
                      [id \in DOMAIN @ |->
                          IF @[id].armed
                          THEN [@[id] EXCEPT !.age = @ + TickLength]
                          ELSE @[id]]]
    /\ UNCHANGED <<busvars, sessvars, pyvars>>

\* The registry disarms a watchdog that is due and calls stream_timeout.
WatchdogExpire(id, sendable) ==
    /\ Len(lib.fired) < MaxFired
    /\ lib.session.watchdog[id].armed
    /\ lib.session.watchdog[id].age = RECV_TIMEOUT
    /\ lib' = [lib EXCEPT
                  !.session = stream_timeout(
                                  [@ EXCEPT !.watchdog[id].armed = FALSE],
                                  id, sendable),
                  !.fired = Append(@, [id |-> id, time |-> lib.now,
                                       since |-> lib.since[id],
                                       first |-> lib.first[id]])]
    /\ UNCHANGED <<busvars, sessvars, pyvars>>

NextWatchdog ==
    \/ \E id \in StreamWatchdogs : WatchdogStart(id)
    \/ \E id \in StreamWatchdogs : WatchdogRestart(id)
    \/ \E id \in StreamWatchdogs : WatchdogStop(id)
    \/ WatchdogTick
    \/ \E id \in StreamWatchdogs, sendable \in BOOLEAN :
           WatchdogExpire(id, sendable)

SpecWatchdog == InitWatchdog /\ [][NextWatchdog]_vars

\* ------------------------------------------- claims about the py/http2 run

Opened(p, stream_id) ==
    /\ watchdog_exist(p, recv_watchdog_id(stream_id))
    /\ watchdog_exist(p, send_watchdog_id(stream_id))

\* C16: after on_frame_send for a DATA or HEADERS frame of an open stream
\* whose two watchdogs are registered, the send watchdog is armed exactly
\* when the frame had no END_STREAM flag and the stream's or the
\* connection's remote window was <= 0; with END_STREAM the recv watchdog is
\* untouched; without it the recv watchdog is restarted if it was armed and
\* stays disarmed if it was not.
C16_FrameSend ==
    [][\A stream_id \in PyStreamIds, end_stream \in BOOLEAN,
          stream_window \in Windows, window \in Windows :
           (/\ Opened(py, stream_id)
            /\ py'.last.cb = "frame_send"
            /\ OnFrameSend(stream_id, end_stream, stream_window, window))
               => /\ py'.ret = "ok"
                  /\ Opened(py', stream_id)
                  /\ py'.watchdog[send_watchdog_id(stream_id)].armed
                         <=> (~end_stream
                              /\ (stream_window <= 0 \/ window <= 0))
                  /\ py'.watchdog[send_watchdog_id(stream_id)].armed
                         => py'.watchdog[send_watchdog_id(stream_id)].age = 0
                  /\ end_stream
                         => py'.watchdog[recv_watchdog_id(stream_id)]
                                = py.watchdog[recv_watchdog_id(stream_id)]
                  /\ ~end_stream
                         => py'.watchdog[recv_watchdog_id(stream_id)]
                                = IF py.watchdog[recv_watchdog_id(stream_id)].armed
                                  THEN [armed |-> TRUE, age |-> 0]
                                  ELSE py.watchdog[recv_watchdog_id(stream_id)]
      ]_vars

\* A DATA frame without END_STREAM was sent on stream 1 with the window
\* exhausted while the recv watchdog had been running for a whole timeout:
\* the recv watchdog was restarted and the send watchdog is armed.
C16_Witness ==
    /\ py.last.cb = "frame_send" /\ py.last.id = 1
    /\ ~py.last.end /\ py.last.blocked
    /\ py.last.recv = [armed |-> TRUE, age |-> Ticks]
    /\ py.watchdog[recv_watchdog_id(1)] = [armed |-> TRUE, age |-> 0]
    /\ py.watchdog[send_watchdog_id(1)] = [armed |-> TRUE, age |-> 0]

\* C17: on_data_chunk_recv for a stream whose recv watchdog is registered
\* returns success; an armed recv watchdog is restarted and a disarmed one
\* stays disarmed.
C17_DataChunk ==
    [][\A stream_id \in PyStreamIds :
           (/\ watchdog_exist(py, recv_watchdog_id(stream_id))
            /\ py'.last.cb = "data_chunk_recv"
            /\ OnDataChunkRecv(stream_id))
               => /\ py'.ret = "ok"
                  /\ py'.watchdog[recv_watchdog_id(stream_id)]
                         = IF py.watchdog[recv_watchdog_id(stream_id)].armed
                           THEN [armed |-> TRUE, age |-> 0]
                           ELSE py.watchdog[recv_watchdog_id(stream_id)]
      ]_vars

\* C19: the session is terminated with NGHTTP2_SETTINGS_TIMEOUT exactly by
\* the expiry of the settings watchdog, which is armed from session_init
\* and expires only before the SETTINGS ACK; after the ACK the watchdog is
\* gone and the callback returned success.
C19_SettingsTimeout ==
    [][/\ \A sendable \in BOOLEAN :
              OnExpire(SETTINGS_WATCHDOG_ID, sendable)
                  => /\ ~py.nghttp2.acked
                     /\ py'.nghttp2.goaway = "NGHTTP2_SETTINGS_TIMEOUT"
                     /\ sendable => py'.closed
       /\ py'.nghttp2.goaway # py.nghttp2.goaway
              => \E sendable \in BOOLEAN :
                     OnExpire(SETTINGS_WATCHDOG_ID, sendable)
       /\ (~py.nghttp2.acked /\ py.nghttp2.goaway = "")
              => /\ watchdog_exist(py, SETTINGS_WATCHDOG_ID)
                 /\ py.watchdog[SETTINGS_WATCHDOG_ID].armed
       /\ OnSettingsAck => py'.ret = "ok"
       /\ py'.nghttp2.acked
              => \/ ~watchdog_exist(py', SETTINGS_WATCHDOG_ID)
                 \/ ~py'.watchdog[SETTINGS_WATCHDOG_ID].armed
      ]_vars

\* The settings watchdog expired before any ACK and the session was closed
\* with the settings-timeout error while a stream was open.
C19_Witness ==
    /\ py.last.cb = "settings_timeout"
    /\ py.nghttp2.goaway = "NGHTTP2_SETTINGS_TIMEOUT"
    /\ ~py.nghttp2.acked
    /\ py.closed
    /\ py.nghttp2.open = {1}

\* C20: when a registry call of stream_on_open fails, on_begin_headers
\* returns NGHTTP2_ERR_CALLBACK_FAILURE.
C20_OpenFailure ==
    (py.last.cb = "begin_headers" /\ py.last.fault # "none")
        => py.ret = "NGHTTP2_ERR_CALLBACK_FAILURE"

\* C18: when a timer of stream id expires, RST_STREAM is submitted for that
\* stream alone and the session does not begin to shut down: nothing more
\* than the reset is queued for sending, no shutdown is pending afterwards
\* that was not pending before, and every other open stream stays open
\* with its timers as they were.
C18_StreamTimeout ==
    [][\A s \in Sessions, id \in StreamIds :
           OnStreamTimer(s, id)
               => /\ world'.codec[s].rst = world.codec[s].rst \cup {id}
                  /\ world'.http[s].shutdown_event
                         = world.http[s].shutdown_event
                  /\ world'.note[s].requested = world.note[s].requested
                  /\ \A j \in world.codec[s].open \ {id} :
                         /\ j \in world'.codec[s].open
                         /\ world'.stream[stream_addr(s, j)]
                                = world.stream[stream_addr(s, j)]
      ]_vars

\* ------------------------------------------ claims about the stream table

\* C21: a walk with hash_table_next from a zero-initialised iterator, over
\* a table that is not changed meanwhile, has yielded every entry of the
\* table exactly once when hash_table_next returns false.
C21_WalkComplete ==
    lib.walk = "done"
        => /\ {<<lib.seen[i].key, lib.seen[i].value>> : i \in DOMAIN lib.seen}
                  = Entries(lib.table)
           /\ Len(lib.seen) = Cardinality(Entries(lib.table))

\* C22: the table is the finite map that put, pop and get describe: get
\* returns the value put for a present id and nothing for an absent one,
\* an id has at most one entry, pop returns the value and removes the
\* entry, and a put of a present id or a pop of an absent id is reported
\* (put returns true, pop returns false) and changes nothing.
C22_FiniteMap ==
    /\ ~lib.ub
    /\ \A key \in TableKeys :
           /\ hash_table_get(lib.table, key)
                  = IF key \in DOMAIN lib.map THEN lib.map[key] ELSE NoStream
           /\ Cardinality({e \in Entries(lib.table) : e[1] = key}) <= 1
    /\ Entries(lib.table) = {<<key, lib.map[key]>> : key \in DOMAIN lib.map}
    /\ lib.last.op = "put" => lib.last.ret = lib.last.present
    /\ lib.last.op = "pop" => lib.last.ret = lib.last.present
    /\ lib.last.op = "get" => lib.last.ret = lib.last.present

\* ------------------------------------------------ claims about a buffer
\* C23: in every reachable state of an allocated buffer, whatever calls
\* of the view/provided/consumed interface and of the mem and net helpers
\* came before, 0 <= outgoing <= incoming <= size.
C23_Cursors ==
    lib.buffer.buffer
        => /\ 0 <= lib.buffer.outgoing
           /\ lib.buffer.outgoing <= lib.buffer.incoming
           /\ lib.buffer.incoming <= lib.buffer.size

\* A full buffer part of which has been read: both inequalities are tight
\* or strict away from 0.
C23_Witness ==
    /\ lib.buffer.buffer
    /\ lib.buffer.outgoing > 0
    /\ lib.buffer.outgoing < lib.buffer.incoming
    /\ lib.buffer.incoming = lib.buffer.size

\* C24: the bytes taken out of the buffer, followed by the bytes still
\* unread in it, are exactly the bytes put into it, in the same order:
\* none is lost, none is duplicated.
C24_RoundTrip ==
    lib.read \o Unread(lib) = lib.written

\* More bytes than the buffer holds went through it, so the cursors were
\* reset on the way, and the bytes differ, so order is observable.
C24_Witness ==
    /\ Len(lib.read) = MaxWritten
    /\ lib.read = lib.written
    /\ lib.read[1] # lib.read[2]
    /\ lib.read[BufSize] # lib.read[BufSize + 1]

\* C25: when a call that consumes outgoing bytes returns with the read
\* cursor equal to the write cursor, both cursors are 0 and the next
\* buffer_incoming_view offers the whole size.
C25_Reset ==
    /\ lib.last.op \in {"outgoing_consumed", "outgoing_mem", "outgoing_net"}
    /\ ~lib.aborted
    /\ lib.buffer.outgoing = lib.buffer.incoming
    => /\ lib.buffer.outgoing = 0
       /\ lib.buffer.incoming = 0
       /\ buffer_incoming_view(lib.buffer) = lib.buffer.size

\* buffer_outgoing_consumed has just taken the last unread bytes of a
\* buffer whose cursors were both away from 0.
C25_Witness ==
    /\ lib.last.op = "outgoing_consumed"
    /\ ~lib.aborted
    /\ lib.last.before.outgoing > 0
    /\ lib.last.n = buffer_used_space(lib.last.before)
    /\ lib.buffer.incoming = 0

\* C26: buffer_incoming_provided of more than the free space at the tail
\* and buffer_outgoing_consumed of more than the unread bytes fail (expect
\* aborts) with both cursors where they were; the size of an allocated
\* buffer is the one it was allocated with; buffer_incoming_mem of more
\* bytes than fit stores the bytes that fit and returns their number.
C26_Capacity ==
    /\ lib.last.op = "incoming_provided"
       /\ lib.last.n > buffer_incoming_view(lib.last.before)
       => lib.aborted /\ lib.buffer = lib.last.before
    /\ lib.last.op = "outgoing_consumed"
       /\ lib.last.n > buffer_used_space(lib.last.before)
       => lib.aborted /\ lib.buffer = lib.last.before
    /\ lib.buffer.buffer => lib.buffer.size = BufSize
    /\ lib.last.op = "incoming_mem"
       => /\ lib.last.ret
                = Min2(lib.last.n, buffer_incoming_view(lib.last.before))
          /\ lib.buffer.incoming = lib.last.before.incoming + lib.last.ret
          /\ lib.buffer.outgoing = lib.last.before.outgoing
          /\ Len(lib.written) >= lib.last.ret
          /\ mem_read(lib.mem, lib.last.before.incoming, lib.last.ret)
                 = SubSeq(lib.written, Len(lib.written) - lib.last.ret + 1,
                          Len(lib.written))

\* buffer_incoming_provided was called with more than the free space of a
\* buffer that holds bytes already.
C26_Witness ==
    /\ lib.last.op = "incoming_provided"
    /\ lib.aborted
    /\ lib.last.before.incoming > 0
    /\ lib.last.n > buffer_incoming_view(lib.last.before)

C28_OneSubscription ==
    /\ Range(Listeners(world.bus, CHANNEL_SESSION_SEND_BUFFER_EMPTY))
           = {world.http[s].shutdown_event : s \in Sessions} \ {NULL}
    /\ Len(Listeners(world.bus, CHANNEL_SESSION_SEND_BUFFER_EMPTY))
           = Cardinality({s \in Sessions : world.http[s].shutdown_event # NULL})
    /\ \A s \in Sessions :
           world.note[s].closed \/ world.note[s].http_deleted
               => world.http[s].shutdown_event = NULL

\* The shutdown of a session was requested a second time while the first
\* was in progress, and the session has been closed since.
C28_Witness ==
    \E s \in Sessions :
        /\ world.note[s].again
        /\ world.note[s].requested >= 0
        /\ world.note[s].closed
        /\ world.note[s].http_deleted

\* ------------------------------------ claims about the transport handlers
\* What a run of _recv or _send that ended with errno `end` left of
\* session s.
Survives(s) ==
    /\ world'.session[s].handle
    /\ world'.session[s].fd
    /\ world'.session[s].recv_buffer.buffer
    /\ world'.session[s].send_buffer.buffer
    /\ ~world'.note[s].closed
    /\ world'.http[s] = world.http[s]

Deleted(s, end) ==
    /\ ~world'.session[s].handle
    /\ ~world'.session[s].fd
    /\ ~world'.session[s].recv_watcher
    /\ ~world'.session[s].send_watcher
    /\ world'.note[s].closed
    /\ world'.note[s].cause = end
    /\ world'.http[s] = ZeroHttp

Untouched(s) ==
    /\ \A t \in Sessions \ {s} :
           /\ world'.session[t] = world.session[t]
           /\ world'.http[t] = world.http[t]
           /\ world'.note[t] = world.note[t]
    /\ world'.ub = ""
    /\ ev'.pc = "idle"

\* What every step of OnRecv and OnSend with these inputs shows: the bytes
\* moved if the buffer is still there, the errno if the session was closed.
Fits(s, n, end, buffer) ==
    /\ world'.session[s][buffer].buffer
           => \/ n = buffer_used_space(world'.session[s][buffer])
                        - buffer_used_space(world.session[s][buffer])
              \/ n = buffer_used_space(world.session[s][buffer])
                        - buffer_used_space(world'.session[s][buffer])
    /\ world'.note[s].closed => end = world'.note[s].cause

C30_Expiry ==
    /\ \A i \in DOMAIN lib.fired :
           /\ lib.fired[i].time = lib.fired[i].since + RECV_TIMEOUT
           /\ \A j \in DOMAIN lib.fired :
                  (i # j /\ lib.fired[i].id = lib.fired[j].id)
                      => lib.fired[i].since # lib.fired[j].since
    /\ \A id \in StreamWatchdogs :
           lib.session.watchdog[id].armed
               => /\ lib.session.watchdog[id].age = lib.now - lib.since[id]
                  /\ lib.session.watchdog[id].age <= RECV_TIMEOUT
                  /\ \A i \in DOMAIN lib.fired :
                         lib.fired[i].id = id
                             => lib.fired[i].time <= lib.since[id]

\* The recv watchdog was started at 0, restarted at 5 and has expired
\* once, at 15; it is disarmed.
C30_Witness ==
    /\ lib.fired = <<[id |-> recv_watchdog_id(1), time |-> 15, since |-> 5,
                      first |-> 0]>>
    /\ ~lib.session.watchdog[recv_watchdog_id(1)].armed
    /\ lib.now = MaxTime

\* ------------------------------------ claims about the registry's no-ops
\* The registry as the program sees it: a stopped watchdog has no deadline.
Deadlines(p) ==
    [p EXCEPT !.watchdog = [i \in DOMAIN @ |->
                                IF @[i].armed THEN @[i]
                                ELSE [armed |-> FALSE, age |-> 0]]]

\* C31: watchdog_stop of a watchdog that is stopped and
\* watchdog_restart_if_started of one that is stopped succeed and leave the
\* registry as it was; on_frame_send for a stream whose two watchdogs are
\* registered never returns a callback failure, whatever their state.
C31_Idempotence ==
    /\ \A id \in WatchdogIds :
           (watchdog_exist(py, id) /\ ~py.watchdog[id].armed)
               => /\ Deadlines(watchdog_stop(py, id))
                         = Deadlines([py EXCEPT !.err = "ok"])
                  /\ watchdog_restart_if_started(py, id)
                         = [py EXCEPT !.err = "ok"]
    /\ (/\ py.last.cb = "frame_send"
        /\ watchdog_exist(py, recv_watchdog_id(py.last.id))
        /\ watchdog_exist(py, send_watchdog_id(py.last.id)))
           => /\ py.ret = "ok"
              /\ ~py.last.recv.armed
                     => ~py.watchdog[recv_watchdog_id(py.last.id)].armed

\* A frame without END_STREAM was sent with the window open on a stream
\* whose recv watchdog was stopped at the end of its request and whose send
\* watchdog was stopped already.
C31_Witness ==
    /\ py.last.cb = "frame_send"
    /\ ~py.last.end /\ ~py.last.blocked
    /\ py.last.id \in py.nghttp2.ended
    /\ py.last.recv = [armed |-> FALSE, age |-> 0]
    /\ py.watchdog[recv_watchdog_id(py.last.id)] = [armed |-> FALSE, age |-> 0]
    /\ py.watchdog[send_watchdog_id(py.last.id)] = [armed |-> FALSE, age |-> 0]
    /\ py.ret = "ok"

\* ---------------------------------------------- claims about deleting twice
\* C32: http_session_del called for an http_session that http_session_del
\* has zeroed, and session_del of py/http2 called for a session that
\* session_del has zeroed, change nothing: no timer, stream, recipient of
\* the bus, codec or watchdog differs after the call.
C32_Idempotent ==
    /\ (/\ lib.last.op = "http_session_del"
        /\ lib.last.before.world.note[1].http_deleted)
           => lib.world = lib.last.before.world
    /\ (/\ lib.last.op = "session_del"
        /\ lib.last.before.freed)
           => /\ lib.session = lib.last.before.session
              /\ lib.py = lib.last.before.py
              /\ lib.freed = lib.last.before.freed
              /\ lib.ub = ""

\* http_session_del was called a second time after a stream was opened and
\* a shutdown subscription registered, and session_del after it.
C32_Witness ==
    /\ lib.calls["http_session_del"] = MaxCalls
    /\ lib.calls["session_del"] = MaxCalls
    /\ lib.last.op = "session_del"
    /\ lib.last.before.freed
    /\ lib.last.before.world.note[1].http_deleted
    /\ lib.world.note[1].requested >= 0
    /\ lib.world.stream = <<>>
    /\ \E id \in PyStreamIds : watchdog_exist(lib.py, recv_watchdog_id(id))

\* -------------------------------------- claims about sessions on one bus
\* C33: after a send-buffer-emptied event for session x was delivered, x
\* is closed only if x had a shutdown pending, no recipient has acted on x
\* after x was closed and freed or without a subscription of x to remove,
\* and every other session y is as it was, its subscription still among the
\* recipients of the channel.
C33_OnlyItsOwnSession ==
    lib.last.op = "send_buffer_empty"
        => /\ lib.world.ub = ""
           /\ lib.world.note[lib.last.x].closed
                  => lib.last.before.http[lib.last.x].shutdown_event # NULL
           /\ \A y \in Peers \ {lib.last.x} :
                  /\ lib.world.session[y] = lib.last.before.session[y]
                  /\ lib.world.http[y] = lib.last.before.http[y]
                  /\ lib.world.note[y] = lib.last.before.note[y]
                  /\ lib.world.http[y].shutdown_event # NULL
                         => lib.world.http[y].shutdown_event
                                \in Range(Listeners(lib.world.bus,
                                      CHANNEL_SESSION_SEND_BUFFER_EMPTY))

\* ------------------------------------------- claims about the wake-up byte
\* C34: whenever no pass of _on_message is running and the process has not
\* aborted, a non-empty message queue comes with at least one unread byte
\* in the pipe, whatever publishes (written, EAGAIN, failed), cancels and
\* passes came before.
C34_WakeByte ==
    (pc = "idle" /\ Queue(bus) # <<>>) => bus.pipe > 0

\* After a pass took message 1, two messages were published (the write of
\* the second failed with EAGAIN) and one of them was cancelled: one
\* message is queued and its byte is in the pipe.
C34_Witness ==
    /\ pc = "idle"
    /\ taken = <<1>>
    /\ Cardinality(cancelled) = 1
    /\ Len(Queue(bus)) = 1
    /\ DOMAIN bus.mlist = {1, 2, 3}
    /\ bus.pipe = PipeCapacity

C36_Backpressure ==
    \A s \in Sessions :
        (world.session[s].handle /\ world.session[s].fd)
            => /\ ~world.session[s].recv_watcher
                      => buffer_is_full(world.session[s].recv_buffer)
               /\ \A size \in Sizes(buffer_used_space(
                                        world.session[s].recv_buffer)) :
                      LET after == session_recv_buffer_consumed(world, s, size)
                                       .session[s]
                      IN  /\ buffer_used_space(after.recv_buffer)
                                 <= RECV_BUFFER_HIGH_WATERMARK
                                 => after.recv_watcher
                          /\ ~after.recv_watcher
                                 => buffer_is_full(after.recv_buffer)

\* A receive pass filled the buffer and stopped the watcher; consuming one
\* unit leaves more than the watermark unread and the watcher stopped,
\* consuming all of it starts the watcher again.
C36_Witness ==
    \E s \in Sessions :
        /\ world.session[s].handle /\ world.session[s].fd
        /\ ~world.session[s].recv_watcher
        /\ buffer_used_space(world.session[s].recv_buffer) = RECV_BUFFER_SIZE
        /\ ~session_recv_buffer_consumed(world, s, Unit \div 2)
                .session[s].recv_watcher
        /\ session_recv_buffer_consumed(world, s, RECV_BUFFER_SIZE)
               .session[s].recv_watcher

\* C37: in every step of the server, for a session that is allocated with
\* its socket open afterwards: session_send of any count returns with the
\* send watcher active exactly if it was active before or the append left
\* used_space > SEND_BUFFER_LOW_WATERMARK; session_flush_send_buffer
\* returns with it active; and a send watcher that was active is stopped in
\* the step only if the send buffer is empty afterwards.  A watcher that
\* was active is also stopped when the session is deleted.
C37_WriteInterest ==
    [][\A s \in Sessions :
           /\ (world'.session[s].handle /\ world'.session[s].fd)
                  => /\ \A count \in Sizes(SEND_BUFFER_SIZE) :
                            LET after == session_send(world', s, count)
                                             .session[s]
                            IN  after.send_watcher
                                    = (\/ world'.session[s].send_watcher
                                       \/ buffer_used_space(after.send_buffer)
                                              > SEND_BUFFER_LOW_WATERMARK)
                     /\ session_flush_send_buffer(world', s)
                            .session[s].send_watcher
                     /\ (/\ world.session[s].send_watcher
                         /\ ~world'.session[s].send_watcher)
                            => buffer_is_empty(world'.session[s].send_buffer)
           /\ ~world'.session[s].fd => ~world'.session[s].send_watcher
      ]_vars

\* The codec's first frame was appended and left used_space at the low
\* watermark: the bytes are buffered and the send watcher is not active.
C37_Witness ==
    \E s \in Sessions :
        /\ world.session[s].handle /\ world.session[s].fd
        /\ ~world.session[s].send_watcher
        /\ buffer_used_space(world.session[s].send_buffer)
               = SEND_BUFFER_LOW_WATERMARK
        /\ world.codec[s].out = 0

\* ------------------------------------------ claims about the libev-echo bus
\* C38: no publish, cancel or pass reads or writes a message that was
\* freed, and whenever no pass is running every message published so far
\* was delivered, was cancelled, or is still queued.
C38_EchoWalk ==
    /\ ~lib.ub
    /\ lib.pc = "idle"
           => \A m \in DOMAIN lib.links :
                  m \in Range(lib.delivered) \cup lib.cancelled
                            \cup Range(EchoQueue(lib))


\* C39: in every reachable state of the py/http2 session the recv watchdog
\* of a stream exists if and only if its send watchdog exists, and the
\* expect() of stream_on_send_frame never aborts the process.
C39_Paired ==
    /\ ~py.aborted
    /\ \A stream_id \in PyStreamIds :
           watchdog_exist(py, recv_watchdog_id(stream_id))
               <=> watchdog_exist(py, send_watchdog_id(stream_id))


\* C40: over the stream ids of the protocol, in the 32-bit arithmetic of
\* the code, the recv and send watchdog ids of a stream differ from each
\* other and from the settings id, the ids of distinct streams never
\* coincide, and watchdog_id / 10 in stream_timeout gives back the stream.
C40_Encoding ==
    /\ ~lib.ub
    /\ \A s \in lib.open :
           /\ s.recv # s.send
           /\ s.recv # SETTINGS_WATCHDOG_ID
           /\ s.send # SETTINGS_WATCHDOG_ID
           /\ \A t \in lib.open \ {s} :
                  {s.recv, s.send} \cap {t.recv, t.send} = {}
    /\ lib.last.of # 0 => lib.last.stream_id = lib.last.of

====
